---- MODULE Spec2Model ----
(***************************************************************************)
(* Verification model of the batched streaming client of lmql              *)
(* (src/lmql/runtime/bopenai): the capacity governor, the batcher, the     *)
(* driver workers and the per-request stream iterator with its recovery    *)
(* procedure; and of the stream ids of the LMTP client (src/lmql/models).  *)
(*                                                                         *)
(* The module holds these state machines, each over its own variables:     *)
(*   SpecCap    provider calls reserving and releasing Capacity            *)
(*   SpecBatch  Batcher.fill / Batcher.group over the request queue        *)
(*   SpecIter   ResponseStreamSliceIterator over ResponseStreamSlices      *)
(*   SpecDriver complete_request_worker and ResponseStream.iter_task       *)
(*   SpecBias   the logit_bias truncation of AsyncOpenAIAPI.complete       *)
(*   SpecChat   the messages chat_api builds from a tagged prompt          *)
(*   SpecLmtp   the calls, queues and reader loop of the LMTP client       *)
(*   SpecBuf    response_buffer over the chunks of a chat model            *)
(*   SpecApi    the frames completion_api and chat_api read and yield      *)
(* Variants of these (a consumer that stops, a scheduler that is shut      *)
(* down, requests that are resubmitted, a scheduler without tokenizer)     *)
(* and their fair versions are defined with the specifications below.      *)
(***************************************************************************)
EXTENDS Integers, Sequences, FiniteSets, TLC

VARIABLES
    \* ---- capacity governor (openai_api.py)
    reserved,       \* Capacity.reserved
    calls,          \* provider calls: kwargs, position in the generator, history counters
    batcherPc,      \* position of api_complete_worker: "throttle" or "fill"
    \* ---- batcher (batched_openai.py)
    queue,          \* complete_api_call_queue, a sequence kept in priority order
    tasks,          \* Batcher.tasks
    complete_request_queue, \* provider call descriptors handed to the driver workers
    fillPc,         \* position inside Batcher.fill: "get" or "sleep"
    request_ctr,    \* AsyncOpenAIAPI.request_ctr
    requests,       \* history: the kwargs of every request handed to complete()
    \* ---- stream iterator (batched_openai.py)
    slices,         \* the ResponseStreamSlices created for one caller, in order of creation
    its,            \* stack of ResponseStreamSliceIterators: the caller's, then each new_it
    out,            \* what the caller's iterator has yielded so far
    callerState,    \* "ready", "waiting" (inside next()), "stopped", "raised_max", "raised_error"
    kw_timeout,     \* kwargs["timeout"] of the request: "None" or "set"
    finish,         \* finish_reason on the last chunk of a response: "length", or "null"
                    \* for None and every other value (the code tests for "length" only)
    enqueued,       \* history: the chunks the driver has put on the caller's first slice
    available,      \* scheduler.is_available(): some complete_request_worker is not done
    tokenizer,      \* scheduler.tokenizer: "None" or "set"
    \* ---- driver workers (batched_openai.py)
    window,         \* the tasks of one Batcher.fill, grouped into descriptors
    work,           \* per descriptor: the position of the worker that took it
    futures,        \* per task: the state of the future complete() returned
    \* ---- logit_bias of a request (batched_openai.py)
    logit_bias,     \* kwargs["logit_bias"] handed to complete(): its items, in dict order
    request_bias,   \* the logit_bias of the request put on the queue, once it is (<<>> before)
    \* ---- chat prompt (openai_api.py)
    chat_prompt,    \* kwargs["prompt"][0] of a chat call, a string
    messages,       \* kwargs["messages"] built from it, once it is (<<>> before)
    \* ---- LMTP client (lmtp_multiprocessing.py)
    stream_id,      \* LMTPMultiProcessingClient.stream_id
    lmtp,           \* the generate, score and request calls made on the client
    connection,     \* the messages sent to the subprocess, in order
    iterators,      \* LMTPMultiProcessingClient.iterators: stream id -> the queues filed
                    \* under it, each named by the call whose stream_iterator made it
    request_futures, \* LMTPMultiProcessingClient.request_futures: pairs <<stream id, call>>
    arrived,        \* history: the number of frames poll_messages has received
    poll_task,      \* the poll task: "created", "running" (poll_running set) or "cancelled"
    subprocess,     \* the model subprocess: "alive" or "terminated"
    refs,           \* LMTPMultiProcessingClientRef.refs of every wrapper made
    handles,        \* the references handed out: their wrapper, and "open" or "closed"
    \* ---- response_buffer (batched_openai.py)
    buffer_iterator, \* what response_buffer.iterator has yet to yield, ended once empty
    buffer,         \* the fields of the response_buffer
    returned,       \* history: every get(i) made, with what it returned
    \* ---- frames of a provider response (openai_api.py)
    api_kind,       \* the generator that reads the response: "completion" or "chat"
    resp_content,   \* the complete frames of the response the generator has yet to read
    chunk_data,     \* the local `data` of the generator: <<>> while unbound, else <<dict>>
    api_yielded,    \* history: what the generator has yielded
    apiPc           \* the generator: "stream", "done" (returned) or "error" (raised)

capVars == <<reserved, calls, batcherPc>>
batchVars == <<queue, tasks, complete_request_queue, fillPc, request_ctr, requests>>
iterVars == <<slices, its, out, callerState, kw_timeout, finish, enqueued, available,
              tokenizer>>
driverVars == <<window, work, futures>>
biasVars == <<logit_bias, request_bias>>
chatVars == <<chat_prompt, messages>>
lmtpVars == <<stream_id, lmtp, connection, iterators, request_futures,
              arrived, poll_task, subprocess, refs, handles>>
bufVars == <<buffer_iterator, buffer, returned>>
apiVars == <<api_kind, resp_content, chunk_data, api_yielded, apiPc>>
vars == <<capVars, batchVars, iterVars, driverVars, biasVars, chatVars, lmtpVars, bufVars,
          apiVars>>
restCap == <<batchVars, iterVars, driverVars, biasVars, chatVars, lmtpVars, bufVars,
             apiVars>>
restBatch == <<capVars, iterVars, driverVars, biasVars, chatVars, lmtpVars, bufVars,
               apiVars>>
restIter == <<capVars, batchVars, driverVars, biasVars, chatVars, lmtpVars, bufVars,
              apiVars>>
restDriver == <<capVars, batchVars, iterVars, biasVars, chatVars, lmtpVars, bufVars,
                apiVars>>
restBias == <<capVars, batchVars, iterVars, driverVars, chatVars, lmtpVars, bufVars,
              apiVars>>
restChat == <<capVars, batchVars, iterVars, driverVars, biasVars, lmtpVars, bufVars,
              apiVars>>
restLmtp == <<capVars, batchVars, iterVars, driverVars, biasVars, chatVars, bufVars,
              apiVars>>
restBuf == <<capVars, batchVars, iterVars, driverVars, biasVars, chatVars, lmtpVars,
            apiVars>>
restApi == <<capVars, batchVars, iterVars, driverVars, biasVars, chatVars, lmtpVars,
            bufVars>>

(***************************************************************************)
(* Shared helpers                                                          *)
(***************************************************************************)

\* model_info(model).is_chat_model over the model names used here
ModelInfoIsChat(model) ==
    IF model \in {"openai/gpt-3.5-turbo-instruct", "gpt-3.5-turbo-instruct"}
    THEN FALSE
    ELSE model \in {"openai/gpt-4", "gpt-4", "gpt-3.5-turbo"}

\* is_azure_chat(kwargs): api_config present and its api_type holds "azure-chat"
is_azure_chat(kwargs) ==
    IF kwargs.api_config = "none" THEN FALSE
    ELSE kwargs.api_config = "azure-chat"

\* is_chat_model(kwargs): by model name, by azure-chat api_type, or by
\* api_config["chat_model"]
is_chat_model(kwargs) ==
    \/ ModelInfoIsChat(kwargs.model)
    \/ is_azure_chat(kwargs)
    \/ kwargs.api_config = "chat_model"

\* MODELS_WITHOUT_ECHO_LOGPROBS
MODELS_WITHOUT_ECHO_LOGPROBS == {"gpt-3.5-turbo-instruct"}

(***************************************************************************)
(* Part 1.  Capacity governor                                              *)
(***************************************************************************)

\* Capacity.total (32000 in the program), scaled down
CapacityTotal == 1
\* number of provider calls in one run
NumCalls == 2
\* chunks a provider stream yields at most
MaxStreamChunks == 1

CallIds == 1..NumCalls

\* kwargs of the provider calls: completion calls of one and two prompts, a
\* completion call to a model without echo support, chat calls with
\* max_tokens -1 (unbounded), 0 and 2
CallKwargs ==
    { [model |-> "text-davinci-003", api_config |-> "none", num_prompts |-> 1, max_tokens |-> 1, echo |-> TRUE],
      [model |-> "text-davinci-003", api_config |-> "none", num_prompts |-> 2, max_tokens |-> 1, echo |-> TRUE],
      [model |-> "gpt-3.5-turbo-instruct", api_config |-> "none", num_prompts |-> 1, max_tokens |-> 1, echo |-> TRUE],
      [model |-> "gpt-3.5-turbo", api_config |-> "none", num_prompts |-> 1, max_tokens |-> -1, echo |-> TRUE],
      [model |-> "gpt-3.5-turbo", api_config |-> "none", num_prompts |-> 1, max_tokens |-> 0, echo |-> TRUE],
      [model |-> "gpt-3.5-turbo", api_config |-> "none", num_prompts |-> 1, max_tokens |-> 2, echo |-> TRUE] }

\* the argument of CapacitySemaphore(...) in completion_api and chat_api
SemaphoreCapacity(kwargs) ==
    IF is_chat_model(kwargs)
    THEN kwargs.num_prompts * kwargs.max_tokens
    ELSE kwargs.num_prompts

\* completion_api / chat_api yield a client-side echo chunk before the semaphore
ClientEcho(kwargs) ==
    IF is_chat_model(kwargs)
    THEN kwargs.echo
    ELSE kwargs.model \in MODELS_WITHOUT_ECHO_LOGPROBS /\ kwargs.echo

\* where the generator goes after the (possible) echo chunk: chat_api returns
\* on max_tokens == 0 and asserts a single prompt; both then enter the semaphore
AfterEcho(kwargs) ==
    IF is_chat_model(kwargs)
    THEN IF kwargs.max_tokens = 0 THEN "done"
         ELSE IF kwargs.num_prompts # 1 THEN "error"
         ELSE "acquire"
    ELSE "acquire"

\* the throttle condition of api_complete_worker: reserved >= total * 0.8
Throttled == reserved * 10 >= CapacityTotal * 8

InitCap ==
    /\ reserved = 0
    /\ calls \in [CallIds -> { [kwargs |-> k, pc |-> "queued", chunks |-> 0,
                                acquires |-> 0, releases |-> 0, acquiredBefore |-> 0,
                                slept |-> FALSE]
                                : k \in CallKwargs }]
    /\ batcherPc = "throttle"
    /\ queue = <<>> /\ tasks = <<>> /\ complete_request_queue = <<>>
    /\ fillPc = "get" /\ request_ctr = 0 /\ requests = <<>>
    /\ slices = <<>> /\ its = <<>> /\ out = <<>>
    /\ callerState = "ready" /\ kw_timeout = "None" /\ finish = "null" /\ enqueued = <<>> /\ available = TRUE
    /\ tokenizer = "set"
    /\ window = <<>> /\ work = <<>> /\ futures = <<>>
    /\ logit_bias = <<>> /\ request_bias = <<>>
    /\ chat_prompt = <<>> /\ messages = <<>>
    /\ stream_id = 0 /\ lmtp = <<>> /\ connection = <<>>
    /\ iterators = <<>> /\ request_futures = {}
    /\ arrived = 0 /\ poll_task = "created" /\ subprocess = "alive"
    /\ refs = <<>> /\ handles = <<>>
    /\ buffer_iterator = <<>> /\ buffer = <<>> /\ returned = <<>>
    /\ api_kind = "none" /\ resp_content = <<>> /\ chunk_data = <<>>
    /\ api_yielded = <<>> /\ apiPc = "idle"

\* api_complete_worker: the throttle loop is left once reserved < 0.8 * total
BatcherPass ==
    /\ batcherPc = "throttle"
    /\ ~Throttled
    /\ batcherPc' = "fill"
    /\ UNCHANGED <<reserved, calls, restCap>>

\* api_complete_worker: batcher.fill takes pending requests in queue order and
\* the descriptors are put on the driver queue
BatcherEmit ==
    /\ batcherPc = "fill"
    /\ \E last \in CallIds :
          /\ calls[last].pc = "queued"
          /\ calls' = [c \in CallIds |->
                         IF c <= last /\ calls[c].pc = "queued"
                         THEN [calls[c] EXCEPT !.pc = "dispatched"]
                         ELSE calls[c]]
    /\ batcherPc' = "throttle"
    /\ UNCHANGED <<reserved, restCap>>

\* completion_api / chat_api up to their first suspension: the client-side
\* echo chunk, or the entry of the semaphore
StartCall(c) ==
    /\ calls[c].pc = "dispatched"
    /\ LET k == calls[c].kwargs IN
       IF ClientEcho(k)
       THEN IF ~is_chat_model(k) /\ k.max_tokens = 0
            THEN calls' = [calls EXCEPT ![c].pc = "error"]
            ELSE calls' = [calls EXCEPT ![c].pc = "echoed", ![c].chunks = 1,
                                        ![c].acquiredBefore = calls[c].acquires]
       ELSE calls' = [calls EXCEPT ![c].pc = AfterEcho(k)]
    /\ UNCHANGED <<reserved, batcherPc, restCap>>

\* the generator is resumed after its echo chunk
ResumeCall(c) ==
    /\ calls[c].pc = "echoed"
    /\ calls' = [calls EXCEPT ![c].pc = AfterEcho(calls[c].kwargs)]
    /\ UNCHANGED <<reserved, batcherPc, restCap>>

\* CapacitySemaphore.__aenter__ while reserved >= total: asyncio.sleep(0.5)
\* and the loop checks again (slept records that the call has waited)
AcquireSleep(c) ==
    /\ calls[c].pc = "acquire"
    /\ reserved >= CapacityTotal
    /\ calls' = [calls EXCEPT ![c].slept = TRUE]
    /\ UNCHANGED <<reserved, batcherPc, restCap>>

\* CapacitySemaphore.__aenter__ once reserved < total: the capacity is reserved
Acquire(c) ==
    /\ calls[c].pc = "acquire"
    /\ ~(reserved >= CapacityTotal)
    /\ reserved' = reserved + SemaphoreCapacity(calls[c].kwargs)
    /\ calls' = [calls EXCEPT ![c].pc = "stream", ![c].acquires = @ + 1]
    /\ UNCHANGED <<batcherPc, restCap>>

\* a chunk of the provider's response is parsed and yielded
StreamChunk(c) ==
    /\ calls[c].pc = "stream"
    /\ calls[c].chunks < MaxStreamChunks
    /\ calls' = [calls EXCEPT ![c].chunks = @ + 1,
                              ![c].acquiredBefore =
                                  IF calls[c].chunks = 0 THEN calls[c].acquires ELSE @]
    /\ UNCHANGED <<reserved, batcherPc, restCap>>

\* [DONE]: the generator returns and CapacitySemaphore.__aexit__ runs
StreamDone(c) ==
    /\ calls[c].pc = "stream"
    /\ reserved' = reserved - SemaphoreCapacity(calls[c].kwargs)
    /\ calls' = [calls EXCEPT ![c].pc = "done", ![c].releases = @ + 1]
    /\ UNCHANGED <<batcherPc, restCap>>

\* StreamError without the release: the exception skips __aexit__
StreamErrorLeak(c) ==
    /\ calls[c].pc = "stream"
    /\ calls' = [calls EXCEPT ![c].pc = "error"]
    /\ UNCHANGED <<reserved, batcherPc, restCap>>

\* a stream error, the stall timer or a cancellation: the exception leaves the
\* "async with" block, so CapacitySemaphore.__aexit__ runs
StreamError(c) ==
    /\ calls[c].pc = "stream"
    /\ reserved' = reserved - SemaphoreCapacity(calls[c].kwargs)
    /\ calls' = [calls EXCEPT ![c].pc = "error", ![c].releases = @ + 1]
    /\ UNCHANGED <<batcherPc, restCap>>

\* iter_task stops while the generator is suspended at a yield (digest or
\* the assignment after it raised): the generator is not closed, it stays
\* inside its "async with" block
ConsumerStops(c) ==
    /\ calls[c].pc = "stream"
    /\ calls[c].chunks > (IF ClientEcho(calls[c].kwargs) THEN 1 ELSE 0)
    /\ calls' = [calls EXCEPT ![c].pc = "abandoned"]
    /\ UNCHANGED <<reserved, batcherPc, restCap>>

\* the abandoned generator is garbage-collected: the event loop's hook closes
\* it, GeneratorExit leaves the "async with" block and __aexit__ runs
Finalize(c) ==
    /\ calls[c].pc = "abandoned"
    /\ reserved' = reserved - SemaphoreCapacity(calls[c].kwargs)
    /\ calls' = [calls EXCEPT ![c].pc = "closed", ![c].releases = @ + 1]
    /\ UNCHANGED <<batcherPc, restCap>>

NextCap ==
    \/ BatcherPass
    \/ BatcherEmit
    \/ \E c \in CallIds : StartCall(c)
    \/ \E c \in CallIds : ResumeCall(c)
    \/ \E c \in CallIds : AcquireSleep(c)
    \/ \E c \in CallIds : Acquire(c)
    \/ \E c \in CallIds : StreamChunk(c)
    \/ \E c \in CallIds : StreamDone(c)
    \/ \E c \in CallIds : StreamError(c)

\* the provider calls with a consumer that may stop before the response ends
NextCapConsumer ==
    \/ NextCap
    \/ \E c \in CallIds : ConsumerStops(c)
    \/ \E c \in CallIds : Finalize(c)


(***************************************************************************)
(* Part 2.  Batcher                                                        *)
(***************************************************************************)

\* AsyncOpenAIAPI.batch_size (20 in the program), scaled down
BatchSize == 3
\* number of complete() calls in one run
MaxRequests == 3

\* Python values of the request fields
PyInt(n) == [t |-> "int", v |-> n]
PyFloat(n) == [t |-> "float", v |-> n]
PyText(s) == [t |-> "str", v |-> s]
PyBool(b) == [t |-> "bool", v |-> b]
PyNone == [t |-> "None"]
PyMissing == [t |-> "missing"]
PyDict(f) == [t |-> "dict", v |-> f]

\* str(task.get(k, "<none>")) of Batcher.task_type
PyStr(val) ==
    CASE val.t = "int" -> ToString(val.v)
      [] val.t = "float" -> ToString(val.v) \o ".0"
      [] val.t = "str" -> val.v
      [] val.t = "bool" -> IF val.v THEN "True" ELSE "False"
      [] val.t = "None" -> "None"
      [] val.t = "missing" -> "<none>"

\* sorted(task.get("logit_bias", {}).items()): a logit_bias is PyMissing or
\* PyDict of a function from token ids to biases
BiasItems(bias) == IF bias.t = "missing" THEN <<>> ELSE
    LET RECURSIVE Sorted(_)
        Sorted(S) == IF S = {} THEN <<>>
                     ELSE LET m == CHOOSE k \in S : \A j \in S : k <= j
                          IN <<<<m, bias.v[m]>>>> \o Sorted(S \ {m})
    IN Sorted(DOMAIN bias.v)

\* "-".join([f"{k}={v}" for k, v in items])
RECURSIVE JoinBias(_)
JoinBias(items) ==
    IF items = <<>> THEN ""
    ELSE LET one == ToString(items[1][1]) \o "=" \o ToString(items[1][2])
         IN IF Len(items) = 1 THEN one ELSE one \o "-" \o JoinBias(Tail(items))

\* Batcher.task_type with one of its keys forgotten
task_type_without_max_tokens(task) ==
    "model=" \o PyStr(task.model)
    \o "|temperature=" \o PyStr(task.temperature)
    \o "|logprobs=" \o PyStr(task.logprobs)
    \o "|user=" \o PyStr(task.user)
    \o "|logit_bias=" \o JoinBias(BiasItems(task.logit_bias))
    \o "|echo=" \o PyStr(task.echo)
    \o (IF task.prompt.type = "str" THEN "-str" ELSE "-int")

\* Batcher.task_type
task_type(task) ==
    "model=" \o PyStr(task.model)
    \o "|max_tokens=" \o PyStr(task.max_tokens)
    \o "|temperature=" \o PyStr(task.temperature)
    \o "|logprobs=" \o PyStr(task.logprobs)
    \o "|user=" \o PyStr(task.user)
    \o "|logit_bias=" \o JoinBias(BiasItems(task.logit_bias))
    \o "|echo=" \o PyStr(task.echo)
    \o (IF task.prompt.type = "str" THEN "-str" ELSE "-int")

\* is_chat_model over a task or descriptor of the batcher (model is a Python str)
task_is_chat(kwargs) ==
    is_chat_model([model |-> kwargs.model.v, api_config |-> kwargs.api_config])

\* make_request_args(tasks): the provider call descriptor of a bucket
make_request_args(bucket) ==
    LET api_configs == SelectSeq([i \in 1..Len(bucket) |-> bucket[i].api_config],
                                 LAMBDA a : a # "none")
        timeouts == {bucket[i].timeout : i \in 1..Len(bucket)} \ {PyNone}
        timeout == IF timeouts = {} THEN PyNone
                   ELSE CHOOSE m \in timeouts : \A o \in timeouts : o.v <= m.v
    IN [model |-> bucket[1].model,
        max_tokens |-> bucket[1].max_tokens,
        temperature |-> bucket[1].temperature,
        logprobs |-> bucket[1].logprobs,
        user |-> bucket[1].user,
        logit_bias |-> bucket[1].logit_bias,
        echo |-> bucket[1].echo,
        prompt |-> [i \in 1..Len(bucket) |-> bucket[i].prompt],
        futures |-> [i \in 1..Len(bucket) |-> bucket[i].future],
        request_id |-> [i \in 1..Len(bucket) |-> bucket[i].request_id],
        stream |-> TRUE,
        timeout |-> timeout,
        api_config |-> IF api_configs # <<>> THEN api_configs[1] ELSE bucket[1].api_config]

\* the identifiers of ts in order of first appearance (the keys of `buckets`)
RECURSIVE BucketKeys(_, _)
BucketKeys(ts, seen) ==
    IF ts = <<>> THEN <<>>
    ELSE IF task_type(ts[1]) \in seen THEN BucketKeys(Tail(ts), seen)
    ELSE <<task_type(ts[1])>> \o BucketKeys(Tail(ts), seen \cup {task_type(ts[1])})

\* the descriptors of one bucket: chat buckets are split into singletons
BucketRequests(bucket) ==
    IF task_is_chat(bucket[1])
    THEN [i \in 1..Len(bucket) |-> make_request_args(<<bucket[i]>>)]
    ELSE <<make_request_args(bucket)>>

\* Batcher.group: the descriptors appended to queued_requests for the tasks ts
RECURSIVE GroupBuckets(_, _)
GroupBuckets(ts, keys) ==
    IF keys = <<>> THEN <<>>
    ELSE BucketRequests(SelectSeq(ts, LAMBDA t : task_type(t) = keys[1]))
         \o GroupBuckets(ts, Tail(keys))

group(ts) == GroupBuckets(ts, BucketKeys(ts, {}))

\* Batcher.fill_nowait: tasks after draining the queue up to batch_size
FillNowaitTake(ts, q) ==
    IF q # <<>> /\ Len(ts) < BatchSize
    THEN IF Len(q) < BatchSize - Len(ts) THEN Len(q) ELSE BatchSize - Len(ts)
    ELSE 0

\* the kwargs a caller passes to complete(): a base request and requests that
\* differ from it in one field
BaseKwargs ==
    [model |-> PyText("text-davinci-003"), max_tokens |-> PyInt(1),
     temperature |-> PyInt(0), logprobs |-> PyInt(1), user |-> PyMissing,
     logit_bias |-> PyMissing, echo |-> PyBool(TRUE),
     prompt |-> [type |-> "str"], api_config |-> "none", timeout |-> PyNone]

RequestKwargs ==
    { BaseKwargs,
      [BaseKwargs EXCEPT !.model = PyText("gpt-3.5-turbo")],
      [BaseKwargs EXCEPT !.max_tokens = PyInt(2)],
      [BaseKwargs EXCEPT !.temperature = PyFloat(0)],
      [BaseKwargs EXCEPT !.logprobs = PyNone],
      [BaseKwargs EXCEPT !.user = PyText("u")],
      [BaseKwargs EXCEPT !.logit_bias = PyDict(<<>>)],
      [BaseKwargs EXCEPT !.logit_bias = PyDict((1 :> 100) @@ (2 :> -100))],
      [BaseKwargs EXCEPT !.prompt = [type |-> "int"]],
      [BaseKwargs EXCEPT !.api_config = "chat_model"],
      [BaseKwargs EXCEPT !.timeout = PyInt(2)] }

InitBatch ==
    /\ queue = <<>>
    /\ tasks = <<>>
    /\ complete_request_queue = <<>>
    /\ fillPc = "get"
    /\ request_ctr = 0
    /\ requests = <<>>
    /\ reserved = 0 /\ calls = <<>> /\ batcherPc = "throttle"
    /\ slices = <<>> /\ its = <<>> /\ out = <<>>
    /\ callerState = "ready" /\ kw_timeout = "None" /\ finish = "null" /\ enqueued = <<>> /\ available = TRUE
    /\ tokenizer = "set"
    /\ window = <<>> /\ work = <<>> /\ futures = <<>>
    /\ logit_bias = <<>> /\ request_bias = <<>>
    /\ chat_prompt = <<>> /\ messages = <<>>
    /\ stream_id = 0 /\ lmtp = <<>> /\ connection = <<>>
    /\ iterators = <<>> /\ request_futures = {}
    /\ arrived = 0 /\ poll_task = "created" /\ subprocess = "alive"
    /\ refs = <<>> /\ handles = <<>>
    /\ buffer_iterator = <<>> /\ buffer = <<>> /\ returned = <<>>
    /\ api_kind = "none" /\ resp_content = <<>> /\ chunk_data = <<>>
    /\ api_yielded = <<>> /\ apiPc = "idle"

\* a put that ignores the priority: the item goes behind the pending ones
PutLast(q, r) == Append(q, r)

\* PriorityQueue.put of RequestQueueItem(kwargs, request_id): the queue is
\* kept in the order in which get() returns its items, smallest priority
\* first (the priorities of pending items are distinct)
PriorityPut(q, r) ==
    LET n == Cardinality({j \in DOMAIN q : q[j].request_id <= r.request_id})
    IN SubSeq(q, 1, n) \o <<r>> \o SubSeq(q, n + 1, Len(q))

\* AsyncOpenAIAPI.complete for a fresh request: the request takes the next
\* request id and is put on the priority queue
Complete(kw) ==
    /\ Len(requests) < MaxRequests
    /\ LET r == [model |-> kw.model, max_tokens |-> kw.max_tokens,
                 temperature |-> kw.temperature, logprobs |-> kw.logprobs,
                 user |-> kw.user, logit_bias |-> kw.logit_bias, echo |-> kw.echo,
                 prompt |-> [type |-> kw.prompt.type, id |-> Len(requests) + 1],
                 api_config |-> kw.api_config, timeout |-> kw.timeout,
                 future |-> Len(requests) + 1, request_id |-> request_ctr]
       IN /\ queue' = PriorityPut(queue, r)
          /\ requests' = Append(requests, r)
    /\ request_ctr' = request_ctr + 2
    /\ UNCHANGED <<tasks, complete_request_queue, fillPc, restBatch>>

\* recover() of the iterator of request i, a member of a descriptor that has
\* been put on the driver queue: complete(**recovery_kwargs) with
\* the request_id of the slice's kwargs; the request gets a new future, keeps
\* its id and is put on the priority queue, and request_ctr is still
\* incremented after the put
Resubmit(i) ==
    /\ Len(requests) < MaxRequests
    /\ i \in DOMAIN requests
    /\ \E k \in DOMAIN complete_request_queue :
          \E m \in DOMAIN complete_request_queue[k].futures :
              complete_request_queue[k].futures[m] = i
    /\ \A j \in DOMAIN queue : queue[j].request_id # requests[i].request_id
    /\ \A j \in DOMAIN tasks : tasks[j].request_id # requests[i].request_id
    /\ LET r == [requests[i] EXCEPT !.future = Len(requests) + 1]
       IN /\ queue' = PriorityPut(queue, r)
          /\ requests' = Append(requests, r)
    /\ request_ctr' = request_ctr + 1
    /\ UNCHANGED <<tasks, complete_request_queue, fillPc, restBatch>>

\* Batcher.fill up to its sleep: the blocking get of the first item, then
\* fill_nowait; a batch over batch_size would be grouped without sleeping
FillGet ==
    /\ fillPc = "get"
    /\ queue # <<>>
    /\ LET n == FillNowaitTake(<<Head(queue)>>, Tail(queue))
           ts == SubSeq(queue, 1, 1 + n)
       IN /\ queue' = SubSeq(queue, 2 + n, Len(queue))
          /\ IF Len(ts) <= BatchSize
             THEN /\ tasks' = ts
                  /\ fillPc' = "sleep"
                  /\ UNCHANGED complete_request_queue
             ELSE /\ tasks' = <<>>
                  /\ fillPc' = "get"
                  /\ complete_request_queue' = complete_request_queue \o group(ts)
    /\ UNCHANGED <<request_ctr, requests, restBatch>>

\* Batcher.fill after its sleep: fill_nowait again, group(), and
\* api_complete_worker puts the descriptors on the driver queue
FillWake ==
    /\ fillPc = "sleep"
    /\ LET n == FillNowaitTake(tasks, queue)
           ts == tasks \o SubSeq(queue, 1, n)
       IN /\ queue' = SubSeq(queue, n + 1, Len(queue))
          /\ complete_request_queue' = complete_request_queue \o group(ts)
    /\ tasks' = <<>>
    /\ fillPc' = "get"
    /\ UNCHANGED <<request_ctr, requests, restBatch>>

NextBatch ==
    \/ \E kw \in RequestKwargs : Complete(kw)
    \/ FillGet
    \/ FillWake

\* the batcher with iterators that resubmit their requests
NextBatchRecover ==
    \/ NextBatch
    \/ \E i \in 1..MaxRequests : Resubmit(i)

(***************************************************************************)
(* Part 3.  Per-request stream iterator and recovery                       *)
(*                                                                         *)
(* One caller iterates over the slice of one request.  Characters are      *)
(* numbers, a text is a sequence of characters and a token is the text it  *)
(* stands for (the API reports tokens as strings).  The provider echoes    *)
(* the prompt it is sent, token by token, and continues it with the        *)
(* tokens of one fixed completion, in chunks of any size.                  *)
(***************************************************************************)

\* tokens of the prompt together with its completion
NumTokens == 2
\* tokens the provider packs into one chunk at most
MaxChunkTokens == 2
\* maximum_retries of a ResponseStreamSlice, as ResponseStreamSlice.__init__
\* sets it by default (AsyncOpenAIAPI hands its own maximum_retries, 20, down
\* to the slices it creates)
MaximumRetries == 3
\* requests issued before the last failure (error of a response, timeout of a
\* running one) of a behaviour
MaxFailures == 4
\* timeouts of running responses in one behaviour
MaxTimeouts == 1

EndOfText == <<0>>

RECURSIVE Flatten(_)
Flatten(ss) == IF ss = <<>> THEN <<>> ELSE Head(ss) \o Flatten(Tail(ss))

\* token i reads <<i>> when i is odd and <<i, i>> when i is even
WorldTokens == [i \in 1..NumTokens |-> IF i % 2 = 0 THEN <<i, i>> ELSE <<i>>]

\* the provider's tokenizer
RECURSIVE Tokenize(_)
Tokenize(text) ==
    IF text = <<>> THEN <<>>
    ELSE IF Head(text) % 2 = 0 /\ Len(text) >= 2
         THEN <<SubSeq(text, 1, 2)>> \o Tokenize(SubSeq(text, 3, Len(text)))
         ELSE <<SubSeq(text, 1, 1)>> \o Tokenize(Tail(text))

\* the tokens of the provider's response to a prompt sent with echo=True
StreamTokens(prompt) ==
    LET echoed == Tokenize(prompt)
    IN echoed \o SubSeq(WorldTokens, Len(echoed) + 1, NumTokens)

\* the caller's prompt: the first token
OriginalPrompt == WorldTokens[1]

\* x[-n:] of a Python list
LastN(x, n) == IF n >= Len(x) THEN x ELSE SubSeq(x, Len(x) - n + 1, Len(x))

\* ResponseStreamSlice.__init__ (pos is the position of the driver in the
\* provider's response, state tells whether iter_task runs, has ended or has
\* failed, and timed_out records that a reader gave up on the running response)
NewSlice(prompt) ==
    [prompt |-> prompt, pos |-> 0, state |-> "open", data_queue |-> <<>>,
     failed |-> FALSE, done |-> FALSE, finish_reason |-> "null", timed_out |-> FALSE]

\* ResponseStreamSliceIterator.__init__
NewIterator(s) ==
    [slice |-> s, retries |-> 0, text |-> <<>>, consumed_tokens |-> <<>>, n |-> 0,
     pc |-> "idle", new_slice |-> 0]

\* the slice the innermost iterator reads.  The driver's steps are taken for
\* this slice only: what a response delivers while no iterator reads its slice
\* is seen when the slice is read again, and is delivered then
Referenced(s) ==
    /\ s \in DOMAIN slices
    /\ callerState \in {"ready", "waiting"}
    /\ its[Len(its)].slice = s

InitIter ==
    /\ slices = <<NewSlice(OriginalPrompt)>>
    /\ its = <<NewIterator(1)>>
    /\ out = <<>>
    /\ callerState = "ready"
    /\ kw_timeout \in {"None", "set"}
    /\ finish \in {"null", "length"}
    /\ enqueued = <<>>
    /\ available = TRUE
    /\ tokenizer = "set"
    /\ reserved = 0 /\ calls = <<>> /\ batcherPc = "throttle"
    /\ queue = <<>> /\ tasks = <<>> /\ complete_request_queue = <<>>
    /\ fillPc = "get" /\ request_ctr = 0 /\ requests = <<>>
    /\ window = <<>> /\ work = <<>> /\ futures = <<>>
    /\ logit_bias = <<>> /\ request_bias = <<>>
    /\ chat_prompt = <<>> /\ messages = <<>>
    /\ stream_id = 0 /\ lmtp = <<>> /\ connection = <<>>
    /\ iterators = <<>> /\ request_futures = {}
    /\ arrived = 0 /\ poll_task = "created" /\ subprocess = "alive"
    /\ refs = <<>> /\ handles = <<>>
    /\ buffer_iterator = <<>> /\ buffer = <<>> /\ returned = <<>>
    /\ api_kind = "none" /\ resp_content = <<>> /\ chunk_data = <<>>
    /\ api_yielded = <<>> /\ apiPc = "idle"

\* the state after construction, with a scheduler whose tokenizer is set or not
InitIterTokenizer ==
    /\ slices = <<NewSlice(OriginalPrompt)>>
    /\ its = <<NewIterator(1)>>
    /\ out = <<>>
    /\ callerState = "ready"
    /\ kw_timeout \in {"None", "set"}
    /\ finish \in {"null", "length"}
    /\ enqueued = <<>>
    /\ available = TRUE
    /\ tokenizer \in {"None", "set"}
    /\ reserved = 0 /\ calls = <<>> /\ batcherPc = "throttle"
    /\ queue = <<>> /\ tasks = <<>> /\ complete_request_queue = <<>>
    /\ fillPc = "get" /\ request_ctr = 0 /\ requests = <<>>
    /\ window = <<>> /\ work = <<>> /\ futures = <<>>
    /\ logit_bias = <<>> /\ request_bias = <<>>
    /\ chat_prompt = <<>> /\ messages = <<>>
    /\ stream_id = 0 /\ lmtp = <<>> /\ connection = <<>>
    /\ iterators = <<>> /\ request_futures = {}
    /\ arrived = 0 /\ poll_task = "created" /\ subprocess = "alive"
    /\ refs = <<>> /\ handles = <<>>
    /\ buffer_iterator = <<>> /\ buffer = <<>> /\ returned = <<>>
    /\ api_kind = "none" /\ resp_content = <<>> /\ chunk_data = <<>>
    /\ api_yielded = <<>> /\ apiPc = "idle"

(* ---- the driver: ResponseStream.iter_task ---- *)

\* Digest with a data_queue that hands out the newest item first
DigestLifo(s, k) ==
    /\ s \in DOMAIN slices
    /\ slices[s].state = "open"
    /\ Referenced(s)
    /\ LET stream == StreamTokens(slices[s].prompt)
           sl == slices[s]
       IN /\ sl.pos + k <= Len(stream)
          /\ LET toks == SubSeq(stream, sl.pos + 1, sl.pos + k)
                 c == [kind |-> "chunk", text |-> Flatten(toks), tokens |-> toks,
                       finish_reason |-> IF sl.pos + k = Len(stream) THEN finish ELSE "null"]
             IN /\ slices' = [slices EXCEPT ![s].data_queue = <<c>> \o @,
                                             ![s].finish_reason = c.finish_reason,
                                             ![s].pos = @ + k]
                /\ enqueued' = IF s = 1 THEN Append(enqueued, c) ELSE enqueued
    /\ UNCHANGED <<its, out, callerState, kw_timeout, finish, available, tokenizer, restIter>>

\* a chunk of k tokens arrives: slices[index].digest(c), then finish_reason is set
Digest(s, k) ==
    /\ s \in DOMAIN slices
    /\ slices[s].state = "open"
    /\ Referenced(s)
    /\ LET stream == StreamTokens(slices[s].prompt)
           sl == slices[s]
       IN /\ sl.pos + k <= Len(stream)
          /\ LET toks == SubSeq(stream, sl.pos + 1, sl.pos + k)
                 c == [kind |-> "chunk", text |-> Flatten(toks), tokens |-> toks,
                       finish_reason |-> IF sl.pos + k = Len(stream) THEN finish ELSE "null"]
             IN /\ slices' = [slices EXCEPT ![s].data_queue = Append(@, c),
                                             ![s].finish_reason = c.finish_reason,
                                             ![s].pos = @ + k]
                /\ enqueued' = IF s = 1 THEN Append(enqueued, c) ELSE enqueued
    /\ UNCHANGED <<its, out, callerState, kw_timeout, finish, available, tokenizer, restIter>>

\* the response ends: finish() puts the terminator on the slice
Finish(s) ==
    /\ s \in DOMAIN slices
    /\ slices[s].state = "open"
    /\ Referenced(s)
    /\ slices[s].pos = Len(StreamTokens(slices[s].prompt))
    /\ slices' = [slices EXCEPT ![s].data_queue = Append(@, [kind |-> "None"]),
                                 ![s].state = "ended"]
    /\ UNCHANGED <<its, out, callerState, kw_timeout, finish, enqueued, available, tokenizer, restIter>>

\* the response fails: error(e) puts a RecoveryAttempt on the slice
Error(s) ==
    /\ s \in DOMAIN slices
    /\ slices[s].state = "open"
    /\ Referenced(s)
    /\ Len(slices) <= MaxFailures
    /\ slices' = [slices EXCEPT ![s].data_queue = Append(@, [kind |-> "RecoveryAttempt",
                                                             maximum_retries |-> MaximumRetries]),
                                 ![s].failed = TRUE,
                                 ![s].state = "failed"]
    /\ UNCHANGED <<its, out, callerState, kw_timeout, finish, enqueued, available, tokenizer, restIter>>

(* ---- the iterator ---- *)

\* an exception (StopAsyncIteration included) leaves every enclosing recover()
\* and __anext__ and reaches the caller
Unwind(stk, sls, how) ==
    [its |-> <<[stk[1] EXCEPT !.pc = "idle"]>>, slices |-> sls, yield |-> <<>>, caller |-> how]

\* the partial chunk of recover(): what new_it read beyond the point of failure
PartialData(self, new_it, last_data) ==
    LET offset == Len(new_it.consumed_tokens) - Len(self.consumed_tokens)
    IN [kind |-> "chunk",
        text |-> SubSeq(new_it.text, Len(self.text) + 1, Len(new_it.text)),
        tokens |-> LastN(last_data.tokens, offset)]

\* recover(), partial path: the iterator takes over the state of new_it
AdoptPartial(self, new_it) ==
    [self EXCEPT !.text = new_it.text, !.consumed_tokens = new_it.consumed_tokens,
                 !.slice = self.new_slice, !.retries = new_it.retries]

\* recover(), aligned path, forgetting the tokens consumed so far
AdoptAlignedReset(self, new_it) ==
    [self EXCEPT !.text = new_it.text, !.consumed_tokens = <<>>,
                 !.slice = self.new_slice, !.pc = "get_next"]

\* recover(), aligned path: the iterator takes over the state of new_it and
\* calls its own __anext__ again
AdoptAligned(self, new_it) ==
    [self EXCEPT !.text = new_it.text, !.consumed_tokens = new_it.consumed_tokens,
                 !.slice = self.new_slice, !.pc = "get_next"]

\* __anext__ of the topmost iterator returns data: to the caller, or into the
\* loop of the recover() that awaits it, which skips on, returns a partial
\* chunk or leaves the loop
RECURSIVE Return(_, _, _)
Return(stk, sls, data) ==
    IF Len(stk) = 1
    THEN [its |-> <<[stk[1] EXCEPT !.pc = "idle"]>>, slices |-> sls,
          yield |-> <<data>>, caller |-> "ready"]
    ELSE LET new_it == stk[Len(stk)]
             self == stk[Len(stk) - 1]
             below == SubSeq(stk, 1, Len(stk) - 2)
         IN IF Len(new_it.consumed_tokens) > Len(self.consumed_tokens)
            THEN Return(Append(below, AdoptPartial(self, new_it)), sls,
                        PartialData(self, new_it, data))
            ELSE IF Len(new_it.consumed_tokens) < Len(self.consumed_tokens)
            THEN [its |-> Append(Append(below, self), [new_it EXCEPT !.pc = "get_next"]),
                  slices |-> sls, yield |-> <<>>, caller |-> "waiting"]
            ELSE [its |-> Append(below, AdoptAligned(self, new_it)),
                  slices |-> sls, yield |-> <<>>, caller |-> "waiting"]

\* __anext__, last lines: the chunk is added to consumed_tokens and text and returned
Consume(stk, sls, data) ==
    LET self == stk[Len(stk)]
        self2 == [self EXCEPT !.consumed_tokens = @ \o data.tokens,
                              !.text = @ \o data.text]
    IN Return([stk EXCEPT ![Len(stk)] = self2], sls, data)

\* the iterator that starts a recovery never reads its slice again (recover()
\* replaces self.slice before the next read), so what the slice holds is
\* dropped, unless an enclosing recover() holds the slice as its new_slice
Release(stk, sls) ==
    LET s == stk[Len(stk)].slice
    IN IF \E j \in 1..(Len(stk) - 1) : stk[j].new_slice = s
       THEN sls
       ELSE [sls EXCEPT ![s] = [NewSlice(@.prompt) EXCEPT !.state = "released",
                                                          !.timed_out = sls[s].timed_out]]

\* the end-of-text chunk __anext__ makes up at the end of a stream
EndOfTextChunk == [kind |-> "chunk", text |-> EndOfText, tokens |-> <<EndOfText>>]

\* __anext__ at the end of a stream, without the test for "length"
EndOfStreamAlwaysEndOfText(stk, sls) ==
    LET s == stk[Len(stk)].slice
    IN IF sls[s].done THEN Unwind(stk, sls, "stopped")
       ELSE Consume(stk, [sls EXCEPT ![s].done = TRUE], EndOfTextChunk)

\* __anext__ when get_next has returned None, the end of the stream
EndOfStream(stk, sls) ==
    LET s == stk[Len(stk)].slice
    IN IF sls[s].done THEN Unwind(stk, sls, "stopped")
       ELSE IF sls[s].finish_reason = "length"
            THEN Unwind(stk, [sls EXCEPT ![s].done = TRUE], "stopped")
            ELSE Consume(stk, [sls EXCEPT ![s].done = TRUE], EndOfTextChunk)

\* __anext__ on a RecoveryAttempt, without the test for a tokenizer
OnRecoveryAttemptAnyTokenizer(stk, sls, attempt) ==
    LET self2 == [stk[Len(stk)] EXCEPT !.retries = @ + 1]
        stk2 == [stk EXCEPT ![Len(stk)] = self2]
    IN IF ~available
       THEN Unwind(stk, sls, "stopped")
       ELSE IF self2.retries > attempt.maximum_retries
       THEN Unwind(stk2, sls, "raised_max")
       ELSE [its |-> [stk2 EXCEPT ![Len(stk)].pc = "submit"],
             slices |-> Release(stk, sls), yield |-> <<>>, caller |-> "waiting"]

\* __anext__ on a RecoveryAttempt: StopAsyncIteration when the scheduler is
\* not available; else retries is incremented, MaximumRetriesExceeded is
\* raised beyond maximum_retries, attempt.error is raised when the scheduler
\* has no tokenizer, and recover() is awaited otherwise
OnRecoveryAttempt(stk, sls, attempt) ==
    LET self2 == [stk[Len(stk)] EXCEPT !.retries = @ + 1]
        stk2 == [stk EXCEPT ![Len(stk)] = self2]
    IN IF ~available
       THEN Unwind(stk, sls, "stopped")
       ELSE IF self2.retries > attempt.maximum_retries
       THEN Unwind(stk2, sls, "raised_max")
       ELSE IF tokenizer = "None"
       THEN Unwind(stk2, sls, "raised_error")
       ELSE [its |-> [stk2 EXCEPT ![Len(stk)].pc = "submit"],
             slices |-> Release(stk, sls), yield |-> <<>>, caller |-> "waiting"]

\* __anext__ without the test for a RecoveryAttempt: the sentinel is returned
AnextReturnsSentinel(stk, sls, data) ==
    LET self == stk[Len(stk)]
        s == self.slice
    IN CASE data.kind = "None" -> EndOfStream(stk, sls)
         [] data.kind = "RecoveryAttempt" -> Return(stk, sls, data)
         [] OTHER -> Consume(stk, sls, data)

\* __anext__ after get_next has returned data
Anext(stk, sls, data) ==
    CASE data.kind = "None" -> EndOfStream(stk, sls)
      [] data.kind = "RecoveryAttempt" -> OnRecoveryAttempt(stk, sls, data)
      [] OTHER -> Consume(stk, sls, data)

\* the RecoveryAttempt get_next makes up for a TimeoutError
TimeoutAttempt == [kind |-> "RecoveryAttempt", maximum_retries |-> MaximumRetries]

Apply(r) ==
    /\ its' = r.its
    /\ slices' = r.slices
    /\ out' = out \o r.yield
    /\ callerState' = r.caller

\* the caller calls next() on its iterator
CallerNext ==
    /\ callerState = "ready"
    /\ Len(its) = 1 /\ its[1].pc = "idle"
    /\ its' = [its EXCEPT ![1].pc = "get_next"]
    /\ callerState' = "waiting"
    /\ UNCHANGED <<slices, out, kw_timeout, finish, enqueued, available, tokenizer, restIter>>

\* get_next finds the slice done, or gets the next item of its data_queue;
\* then __anext__ handles what get_next returned
GetItem ==
    /\ its # <<>>
    /\ LET self == its[Len(its)]
           sl == slices[self.slice]
       IN /\ self.pc = "get_next"
          /\ sl.done \/ sl.data_queue # <<>>
          /\ IF sl.done
             THEN IF self.n = 0
                  THEN Apply(Anext(its, slices, TimeoutAttempt))
                  ELSE Apply(Unwind(its, slices, "stopped"))
             ELSE Apply(Anext([its EXCEPT ![Len(its)].n = @ + 1],
                              [slices EXCEPT ![self.slice].data_queue = Tail(@)],
                              Head(sl.data_queue)))
    /\ UNCHANGED <<kw_timeout, finish, enqueued, available, tokenizer, restIter>>

\* get_next: asyncio.wait times out with nothing on the data_queue (only when
\* kwargs["timeout"] is not None)
GetTimeout ==
    /\ its # <<>>
    /\ LET self == its[Len(its)]
           sl == slices[self.slice]
       IN /\ self.pc = "get_next"
          /\ ~sl.done /\ sl.data_queue = <<>>
          /\ kw_timeout # "None"
          /\ sl.state = "open" =>
                /\ Len(slices) <= MaxFailures
                /\ Cardinality({s \in DOMAIN slices : slices[s].timed_out}) < MaxTimeouts
          /\ IF sl.done /\ self.n > 0
             THEN Apply(Unwind(its, slices, "stopped"))
             ELSE Apply(Anext(its, [slices EXCEPT ![self.slice].timed_out =
                                                     @ \/ sl.state = "open"],
                              TimeoutAttempt))
    /\ UNCHANGED <<kw_timeout, finish, enqueued, available, tokenizer, restIter>>

\* recover(): the prompt of the replacement request
RecoveryPrompt(self, sl) ==
    IF Len(self.consumed_tokens) > 0 THEN Flatten(self.consumed_tokens) ELSE sl.prompt

\* recover(): scheduler.complete() returns the slice of the replacement
\* request, which takes a driver worker; new_it is created and the loop that
\* skips to the point of failure is entered, or left at once when nothing had
\* been consumed
Recover ==
    /\ its # <<>>
    /\ available
    /\ LET self == its[Len(its)]
           new_slice == Len(slices) + 1
           new_it == [NewIterator(new_slice) EXCEPT !.retries = self.retries + 1]
           sls == Append(slices, NewSlice(RecoveryPrompt(self, slices[self.slice])))
           self2 == [self EXCEPT !.new_slice = new_slice]
       IN /\ self.pc = "submit"
          /\ slices' = sls
          /\ IF Len(new_it.consumed_tokens) < Len(self.consumed_tokens)
             THEN its' = Append([its EXCEPT ![Len(its)] = [self2 EXCEPT !.pc = "skip"]],
                                [new_it EXCEPT !.pc = "get_next"])
             ELSE its' = [its EXCEPT ![Len(its)] = AdoptAligned(self2, new_it)]
    /\ UNCHANGED <<out, callerState, kw_timeout, finish, enqueued, available, tokenizer, restIter>>

\* the driver workers are cancelled: the requests they hold and those still
\* queued are never answered; the responses that are open go on
Shutdown ==
    /\ available
    /\ available' = FALSE
    /\ UNCHANGED <<slices, its, out, callerState, kw_timeout, finish, enqueued, tokenizer,
                   restIter>>

NextIter ==
    \/ \E s \in 1..Len(slices) : \E k \in 1..MaxChunkTokens : Digest(s, k)
    \/ \E s \in 1..Len(slices) : Finish(s)
    \/ \E s \in 1..Len(slices) : Error(s)
    \/ CallerNext
    \/ GetItem
    \/ GetTimeout
    \/ Recover

\* the iterator with a scheduler that is shut down at some moment
NextIterShutdown ==
    \/ NextIter
    \/ Shutdown

(***************************************************************************)
(* Part 4.  Driver workers                                                 *)
(*                                                                         *)
(* The tasks of one Batcher.fill are grouped into descriptors.  A worker   *)
(* takes a descriptor, attempts the provider call until it yields a first  *)
(* chunk, builds a ResponseStream over it and hands slice i to future i;   *)
(* iter_task then demultiplexes the choices of the stream by their index.  *)
(***************************************************************************)

\* number of tasks in the fill window
DriverWindow == 2
\* AsyncOpenAIAPI.maximum_retries (20 in the program), scaled down
DriverRetries == 2
\* number of choices one response stream delivers
DriverChoices == 2

\* the kwargs of the tasks: plain, chat by api_config (a bucket that starts
\* with it is split into single calls), and api_config = {"errors": "raise"}
DriverKwargs ==
    { BaseKwargs,
      [BaseKwargs EXCEPT !.api_config = "chat_model"],
      [BaseKwargs EXCEPT !.api_config = "errors_raise"] }

\* the i-th task of the window as complete() puts it on the queue
DriverTask(kw, i) ==
    [model |-> kw.model, max_tokens |-> kw.max_tokens,
     temperature |-> kw.temperature, logprobs |-> kw.logprobs,
     user |-> kw.user, logit_bias |-> kw.logit_bias, echo |-> kw.echo,
     prompt |-> [type |-> kw.prompt.type, id |-> i],
     api_config |-> kw.api_config, timeout |-> kw.timeout,
     future |-> i, request_id |-> 2 * (i - 1)]

\* the phrases complete_request_worker and is_definitive_error look for in str(e)
ErrorPhrases ==
    {"api.env", "Incorrect API key provided", "No such organization",
     "logit biases, but can provide at most"}

\* the exceptions an attempt can end with: a type and the phrases of its message
AttemptErrors ==
    { [type |-> t, msg |-> {}] :
        t \in {"AssertionError", "OpenAIAPILimitationError", "TimeoutError",
               "OpenAIRateLimitError", "OpenAIStreamError"} }
    \cup { [type |-> "OpenAIStreamError", msg |-> {ph}] : ph \in ErrorPhrases }

NoError == [type |-> "none", msg |-> {}]

\* ResponseStream.view_kwargs with the prompt of the first member for every slice
view_kwargs_first(kwargs, request_ids, i) ==
    [f \in DOMAIN kwargs \cup {"request_id"} |->
        IF f = "prompt" THEN kwargs.prompt[1]
        ELSE IF f = "request_id" THEN request_ids[i]
        ELSE kwargs[f]]

\* ResponseStream.view_kwargs (i counts from 1)
view_kwargs(kwargs, request_ids, i) ==
    [f \in DOMAIN kwargs \cup {"request_id"} |->
        IF f = "prompt" THEN kwargs.prompt[i]
        ELSE IF f = "request_id" THEN request_ids[i]
        ELSE kwargs[f]]

\* ResponseStream.__init__: one slice per member
NewResponseSlices(kwargs, n, request_ids) ==
    [i \in 1..n |-> [kwargs |-> view_kwargs(kwargs, request_ids, i),
                     data_queue |-> <<>>, state |-> "open",
                     finish_reason |-> "None"]]

\* is_definitive_error that knows no definitive message
is_definitive_error_never(e) == FALSE

\* AsyncOpenAIAPI.is_definitive_error
is_definitive_error(e) == "logit biases, but can provide at most" \in e.msg

\* n_chunks of the generator once _create has its first item: the item is the
\* client-side echo chunk, which chat_api and completion_api yield before
\* they open the connection, or the first chunk read from the provider
FirstChunks(kwargs) ==
    IF ClientEcho([model |-> kwargs.model.v, api_config |-> kwargs.api_config,
                   echo |-> kwargs.echo.v])
    THEN 0 ELSE 1

\* kwargs.get("api_config", {}).get("errors", None) == "raise"
ErrorsRaise(kwargs) == kwargs.api_config = "errors_raise"

InitDriver ==
    /\ \E n \in 1..DriverWindow : \E kws \in [1..n -> DriverKwargs] :
          window = [i \in 1..n |-> DriverTask(kws[i], i)]
    /\ work = [k \in 1..Len(group(window)) |->
                 [descriptor |-> group(window)[k], pc |-> "queued",
                  kwargs |-> <<>>, futures |-> <<>>, request_ids |-> <<>>,
                  retries |-> 0, error |-> NoError,
                  slices |-> <<>>, sent |-> 0, n_chunks |-> 0,
                  attempts |-> 0]]
    /\ futures = [i \in 1..Len(window) |-> [state |-> "pending"]]
    /\ reserved = 0 /\ calls = <<>> /\ batcherPc = "throttle"
    /\ queue = <<>> /\ tasks = <<>> /\ complete_request_queue = <<>>
    /\ fillPc = "get" /\ request_ctr = 0 /\ requests = <<>>
    /\ slices = <<>> /\ its = <<>> /\ out = <<>>
    /\ callerState = "ready" /\ kw_timeout = "None" /\ finish = "null" /\ enqueued = <<>> /\ available = TRUE
    /\ tokenizer = "set"
    /\ logit_bias = <<>> /\ request_bias = <<>>
    /\ chat_prompt = <<>> /\ messages = <<>>
    /\ stream_id = 0 /\ lmtp = <<>> /\ connection = <<>>
    /\ iterators = <<>> /\ request_futures = {}
    /\ arrived = 0 /\ poll_task = "created" /\ subprocess = "alive"
    /\ refs = <<>> /\ handles = <<>>
    /\ buffer_iterator = <<>> /\ buffer = <<>> /\ returned = <<>>
    /\ api_kind = "none" /\ resp_content = <<>> /\ chunk_data = <<>>
    /\ api_yielded = <<>> /\ apiPc = "idle"

\* complete_request_worker: queue.get(), the futures and request ids are
\* popped from the descriptor, retries starts at maximum_retries
WorkerGet(k) ==
    /\ k \in DOMAIN work
    /\ work[k].pc = "queued"
    /\ LET d == work[k].descriptor
       IN work' = [work EXCEPT ![k].pc = "create",
                     ![k].kwargs = [f \in DOMAIN d \ {"futures", "request_id"} |-> d[f]],
                     ![k].futures = d.futures,
                     ![k].request_ids = d.request_id,
                     ![k].retries = DriverRetries]
    /\ UNCHANGED <<window, futures, restDriver>>

\* `for future in futures: future.set_exception(e)`
SetException(fs, e) ==
    [f \in DOMAIN futures |->
        IF \E i \in 1..Len(fs) : fs[i] = f
        THEN [state |-> "exception", error |-> e] ELSE futures[f]]

\* the attempt loop that goes round once more after the last permitted failure
AttemptFailsOnceMore(k, e) ==
    /\ k \in DOMAIN work
    /\ work[k].pc = "create"
    /\ LET w == work[k]
           immediate == e.type \in {"AssertionError", "OpenAIAPILimitationError"}
           retries == IF immediate THEN w.retries ELSE w.retries - 1
           raised == \/ immediate
                     \/ "api.env" \in e.msg
                     \/ "Incorrect API key provided" \in e.msg
                     \/ "No such organization" \in e.msg
                     \/ ErrorsRaise(w.kwargs)
                     \/ retries < 0
                     \/ is_definitive_error(e)
       IN /\ work' = [work EXCEPT ![k].retries = IF raised THEN 0 ELSE retries,
                        ![k].error = e,
                        ![k].attempts = IF raised THEN 0 ELSE @ + 1,
                        ![k].pc = IF raised THEN "failed" ELSE "create"]
          /\ futures' = IF raised THEN SetException(w.futures, e) ELSE futures
    /\ UNCHANGED <<window, restDriver>>

\* one pass of the attempt loop that ends with the exception e; the local
\* `retries` is dead once the loop is left and is kept as 0 from then on;
\* attempts counts the calls of _create the loop has made so far and is kept
\* as 0 once the loop is left
AttemptFails(k, e) ==
    /\ k \in DOMAIN work
    /\ work[k].pc = "create"
    /\ LET w == work[k]
           immediate == e.type \in {"AssertionError", "OpenAIAPILimitationError"}
           retries == IF immediate THEN w.retries ELSE w.retries - 1
           raised == \/ immediate
                     \/ "api.env" \in e.msg
                     \/ "Incorrect API key provided" \in e.msg
                     \/ "No such organization" \in e.msg
                     \/ ErrorsRaise(w.kwargs)
                     \/ retries <= 0
                     \/ is_definitive_error(e)
       IN /\ work' = [work EXCEPT ![k].retries = IF raised THEN 0 ELSE retries,
                        ![k].error = e,
                        ![k].attempts = IF raised THEN 0 ELSE @ + 1,
                        ![k].pc = IF raised THEN "failed" ELSE "create"]
          /\ futures' = IF raised THEN SetException(w.futures, e) ELSE futures
    /\ UNCHANGED <<window, restDriver>>

\* _create returns once `first = await anext(res)` has an item: the
\* ResponseStream is built and future i is resolved with rsi.view(i)
AttemptSucceeds(k) ==
    /\ k \in DOMAIN work
    /\ work[k].pc = "create"
    /\ LET w == work[k]
       IN /\ work' = [work EXCEPT ![k].pc = "streaming",
                        ![k].retries = 0, ![k].error = NoError,
                        ![k].n_chunks = FirstChunks(w.kwargs),
                        ![k].attempts = 0,
                        ![k].slices = NewResponseSlices(w.kwargs, Len(w.futures), w.request_ids)]
          /\ futures' = [f \in DOMAIN futures |->
                           IF \E i \in 1..Len(w.futures) : w.futures[i] = f
                           THEN [state |-> "result", stream |-> k,
                                 index |-> CHOOSE i \in 1..Len(w.futures) : w.futures[i] = f]
                           ELSE futures[f]]
    /\ UNCHANGED <<window, restDriver>>

\* iter_task: a chunk of the response with one choice; the choice at index i
\* (counted from 0) continues the i-th prompt of the call.  The first chunk
\* is the one _create has buffered, the later ones are read from the provider
IterTaskChoice(k, i) ==
    /\ k \in DOMAIN work
    /\ work[k].pc = "streaming"
    /\ work[k].sent < DriverChoices
    /\ i \in 0..(Len(work[k].kwargs.prompt) - 1)
    /\ LET c == [index |-> i, continues |-> work[k].kwargs.prompt[i + 1],
                 finish_reason |-> "None"]
           index == c.index + 1
       IN work' = [work EXCEPT ![k].sent = @ + 1,
                     ![k].n_chunks = IF work[k].sent = 0 THEN @ ELSE @ + 1,
                     ![k].slices[index].data_queue = Append(@, c),
                     ![k].slices[index].finish_reason = c.finish_reason]
    /\ UNCHANGED <<window, futures, restDriver>>

\* ResponseStreamSlice.finish: the terminator is put on the data_queue
SliceFinish(sl) ==
    [sl EXCEPT !.data_queue = Append(@, [kind |-> "None"]), !.state = "finished"]

\* error() that marks the slice failed and puts nothing on the data_queue
SliceErrorSilent(sl) ==
    [sl EXCEPT !.state = "failed"]

\* ResponseStreamSlice.error: the slice is marked failed and a RecoveryAttempt
\* is put on the data_queue
SliceError(sl) ==
    [sl EXCEPT !.data_queue = Append(@, [kind |-> "RecoveryAttempt",
                                         maximum_retries |-> DriverRetries]),
               !.state = "failed"]

\* iter_task: the response ends, every slice is finished
IterTaskFinish(k) ==
    /\ k \in DOMAIN work
    /\ work[k].pc = "streaming"
    /\ work' = [work EXCEPT ![k].pc = "closed",
                  ![k].slices = [i \in DOMAIN @ |-> SliceFinish(@[i])]]
    /\ UNCHANGED <<window, futures, restDriver>>

\* iter_task: the response raises, every slice is failed
IterTaskError(k) ==
    /\ k \in DOMAIN work
    /\ work[k].pc = "streaming"
    /\ work' = [work EXCEPT ![k].pc = "closed",
                  ![k].slices = [i \in DOMAIN @ |-> SliceError(@[i])]]
    /\ UNCHANGED <<window, futures, restDriver>>

NextDriver ==
    \/ \E k \in 1..DriverWindow : WorkerGet(k)
    \/ \E k \in 1..DriverWindow : \E e \in AttemptErrors : AttemptFails(k, e)
    \/ \E k \in 1..DriverWindow : AttemptSucceeds(k)
    \/ \E k \in 1..DriverWindow : \E i \in 0..(DriverWindow - 1) : IterTaskChoice(k, i)
    \/ \E k \in 1..DriverWindow : IterTaskFinish(k)
    \/ \E k \in 1..DriverWindow : IterTaskError(k)

(***************************************************************************)
(* Part 5.  logit_bias of a request                                        *)
(*                                                                         *)
(* complete() cuts a logit_bias that is too large before the request is    *)
(* put on the queue.  A dict is the sequence of its items in insertion     *)
(* order, each item a pair <<token id, bias>>.                             *)
(***************************************************************************)

\* the largest logit_bias complete() leaves alone (300 in the program), scaled down
LogitBiasLimit == 2
\* number of token ids a logit_bias is drawn from
BiasTokens == 4

\* the end-of-text token id complete() looks for
EosToken == 50256

\* token ids: some ordinary ones and the end-of-text token
BiasTokenIds == 1..(BiasTokens - 1) \cup {EosToken}

DictKeys(items) == {items[i][1] : i \in 1..Len(items)}

\* the dicts of up to n items over BiasTokenIds with biases -100 and 100
RECURSIVE BiasDicts(_)
BiasDicts(n) ==
    IF n = 0 THEN {<<>>}
    ELSE LET shorter == BiasDicts(n - 1)
         IN shorter \cup
            UNION { { Append(d, <<k, v>>) : k \in BiasTokenIds \ DictKeys(d), v \in {-100, 100} }
                    : d \in {e \in shorter : Len(e) = n - 1} }

\* biases[:n] of a Python list
FirstN(x, n) == IF n >= Len(x) THEN x ELSE SubSeq(x, 1, n)

\* dict(biases): a key keeps the place of its first item and takes the value
\* of its last one
RECURSIVE DictOf(_)
DictOf(items) ==
    IF items = <<>> THEN <<>>
    ELSE LET k == items[1][1]
             last == CHOOSE i \in 1..Len(items) :
                        /\ items[i][1] = k
                        /\ \A j \in (i + 1)..Len(items) : items[j][1] # k
         IN <<<<k, items[last][2]>>>> \o DictOf(SelectSeq(Tail(items), LAMBDA it : it[1] # k))

\* kwargs[key] of a dict given as items
DictGet(items, key) == (CHOOSE i \in 1..Len(items) : items[i][1] = key)

\* complete(): the logit_bias of the request for kwargs["logit_bias"] = items
TruncateLogitBias(items) ==
    IF Len(items) > LogitBiasLimit
    THEN IF EosToken \in DictKeys(items)
         THEN DictOf(FirstN(items, LogitBiasLimit - 1)
                     \o <<<<EosToken, items[DictGet(items, EosToken)][2]>>>>)
         ELSE DictOf(FirstN(items, LogitBiasLimit))
    ELSE items

InitBias ==
    /\ logit_bias \in BiasDicts(BiasTokens)
    /\ request_bias = <<>>
    /\ reserved = 0 /\ calls = <<>> /\ batcherPc = "throttle"
    /\ queue = <<>> /\ tasks = <<>> /\ complete_request_queue = <<>>
    /\ fillPc = "get" /\ request_ctr = 0 /\ requests = <<>>
    /\ slices = <<>> /\ its = <<>> /\ out = <<>>
    /\ callerState = "ready" /\ kw_timeout = "None" /\ finish = "null" /\ enqueued = <<>> /\ available = TRUE
    /\ tokenizer = "set"
    /\ window = <<>> /\ work = <<>> /\ futures = <<>>
    /\ chat_prompt = <<>> /\ messages = <<>>
    /\ stream_id = 0 /\ lmtp = <<>> /\ connection = <<>>
    /\ iterators = <<>> /\ request_futures = {}
    /\ arrived = 0 /\ poll_task = "created" /\ subprocess = "alive"
    /\ refs = <<>> /\ handles = <<>>
    /\ buffer_iterator = <<>> /\ buffer = <<>> /\ returned = <<>>
    /\ api_kind = "none" /\ resp_content = <<>> /\ chunk_data = <<>>
    /\ api_yielded = <<>> /\ apiPc = "idle"

\* complete() up to the put on the queue, for the logit_bias of the request
CompleteLogitBias ==
    /\ request_bias = <<>>
    /\ request_bias' = <<TruncateLogitBias(logit_bias)>>
    /\ UNCHANGED <<logit_bias, restBias>>

NextBias == CompleteLogitBias

(***************************************************************************)
(* Part 6.  Messages of a chat call                                        *)
(*                                                                         *)
(* chat_api splits the prompt at its <lmql:ROLE/> tags into messages.  A   *)
(* string is a sequence of pieces: the tag opener "<lmql:", the tag closer *)
(* "/>", and words that hold neither.                                      *)
(***************************************************************************)

\* number of pieces of a prompt
MaxPromptLen == 6

Opener == "<lmql:"
Closer == "/>"
Pieces == {Opener, Closer, "system", "user", "assistant", "x"}

Prompts == UNION { [1..n -> Pieces] : n \in 0..MaxPromptLen }

\* re.finditer(r"<lmql:(.*?)\/>", s) from position `from` on: the leftmost
\* opener that has a closer after it, with the nearest such closer; <<>> when
\* there is no match, else <<start, end, group>> (end is the closer's position)
NextMatch(s, from) ==
    LET starts == {i \in from..Len(s) :
                     s[i] = Opener /\ \E j \in (i + 1)..Len(s) : s[j] = Closer}
    IN IF starts = {} THEN <<>>
       ELSE LET st == CHOOSE i \in starts : \A o \in starts : i <= o
                en == CHOOSE j \in (st + 1)..Len(s) :
                         /\ s[j] = Closer
                         /\ \A l \in (st + 1)..(j - 1) : s[l] # Closer
            IN <<st, en, SubSeq(s, st + 1, en - 1)>>

\* tagged_segments: the loop over the matches from `offset` on, then the
\* segment after the last match
RECURSIVE Segments(_, _, _)
Segments(s, offset, current_tag) ==
    LET m == NextMatch(s, offset)
    IN IF m = <<>>
       THEN <<[tag |-> current_tag, text |-> SubSeq(s, offset, Len(s))]>>
       ELSE (IF m[1] - offset > 0
             THEN <<[tag |-> current_tag, text |-> SubSeq(s, offset, m[1] - 1)]>>
             ELSE <<>>)
            \o Segments(s, m[2] + 1, m[3])

\* current_tag = None before the first match
NoTag == <<"None">>

tagged_segments(s) == Segments(s, 1, NoTag)

\* chat_api naming every message a user message
ChatRoleAlwaysUser(tag) == "user"

\* chat_api: the role of a segment
ChatRole(tag) ==
    IF tag = <<"system">> THEN "system"
    ELSE IF tag = <<"assistant">> THEN "assistant"
    ELSE "user"

\* chat_api: messages of the prompt
ChatMessages(s) ==
    LET segs == tagged_segments(s)
    IN [i \in 1..Len(segs) |-> [role |-> ChatRole(segs[i].tag), content |-> segs[i].text]]

\* format_chat: "".join(f"<lmql:{m['role']}/>{m['content']}" for m in chat)
RECURSIVE format_chat(_)
format_chat(chat) ==
    IF chat = <<>> THEN <<>>
    ELSE <<Opener, chat[1].role, Closer>> \o chat[1].content \o format_chat(Tail(chat))

InitChat ==
    /\ chat_prompt \in Prompts
    /\ messages = <<>>
    /\ reserved = 0 /\ calls = <<>> /\ batcherPc = "throttle"
    /\ queue = <<>> /\ tasks = <<>> /\ complete_request_queue = <<>>
    /\ fillPc = "get" /\ request_ctr = 0 /\ requests = <<>>
    /\ slices = <<>> /\ its = <<>> /\ out = <<>>
    /\ callerState = "ready" /\ kw_timeout = "None" /\ finish = "null" /\ enqueued = <<>> /\ available = TRUE
    /\ tokenizer = "set"
    /\ window = <<>> /\ work = <<>> /\ futures = <<>>
    /\ logit_bias = <<>> /\ request_bias = <<>>
    /\ stream_id = 0 /\ lmtp = <<>> /\ connection = <<>>
    /\ iterators = <<>> /\ request_futures = {}
    /\ arrived = 0 /\ poll_task = "created" /\ subprocess = "alive"
    /\ refs = <<>> /\ handles = <<>>
    /\ buffer_iterator = <<>> /\ buffer = <<>> /\ returned = <<>>
    /\ api_kind = "none" /\ resp_content = <<>> /\ chunk_data = <<>>
    /\ api_yielded = <<>> /\ apiPc = "idle"

\* chat_api: kwargs["messages"] replaces kwargs["prompt"]
ChatApiMessages ==
    /\ messages = <<>>
    /\ messages' = <<ChatMessages(chat_prompt)>>
    /\ UNCHANGED <<chat_prompt, restChat>>

NextChat == ChatApiMessages

(***************************************************************************)
(* Part 7.  LMTP client over a multiprocessing pipe                        *)
(*                                                                         *)
(* generate and score are async generators, request is a coroutine: a call *)
(* creates the object, and the body runs when the object is first          *)
(* advanced.  The event loop runs one body at a time up to its next await. *)
(* The subprocess answers a GENERATE or SCORE with TOKEN frames and a      *)
(* request with one MSG frame; poll_messages reads them off the pipe.      *)
(***************************************************************************)

\* number of calls made on the client
LmtpCalls == 2
\* number of frames the subprocess sends in all
LmtpFrames == 2
\* number of references handed out for the client
LmtpRefs == 2
\* number of streams open on a client that is closed
LmtpStreams == 1

\* the item close() puts on a queue
NoneItem == [none |-> TRUE]

\* the payload d of a ("TOKEN", d) message
TokenFrame(sid, n, finish_reason, error) ==
    [stream_id |-> sid, n |-> n, finish_reason |-> finish_reason, error |-> error]

InitLmtp ==
    /\ stream_id = 0
    /\ lmtp = <<>>
    /\ connection = <<>>
    /\ iterators = <<>>
    /\ request_futures = {}
    /\ arrived = 0
    /\ poll_task = "created"
    /\ subprocess = "alive"
    /\ refs = <<>>
    /\ handles = <<>>
    /\ buffer_iterator = <<>> /\ buffer = <<>> /\ returned = <<>>
    /\ api_kind = "none" /\ resp_content = <<>> /\ chunk_data = <<>>
    /\ api_yielded = <<>> /\ apiPc = "idle"
    /\ reserved = 0 /\ calls = <<>> /\ batcherPc = "throttle"
    /\ queue = <<>> /\ tasks = <<>> /\ complete_request_queue = <<>>
    /\ fillPc = "get" /\ request_ctr = 0 /\ requests = <<>>
    /\ slices = <<>> /\ its = <<>> /\ out = <<>>
    /\ callerState = "ready" /\ kw_timeout = "None" /\ finish = "null" /\ enqueued = <<>> /\ available = TRUE
    /\ tokenizer = "set"
    /\ window = <<>> /\ work = <<>> /\ futures = <<>>
    /\ logit_bias = <<>> /\ request_bias = <<>>
    /\ chat_prompt = <<>> /\ messages = <<>>

\* client.generate(...), client.score(...) or client.request(...) is called:
\* the generator or coroutine object is created, its body has not run
LmtpCall(kind) ==
    /\ Len(lmtp) < LmtpCalls
    /\ subprocess = "alive"
    /\ lmtp' = Append(lmtp, [kind |-> kind, pc |-> "created", stream_id |-> 0,
                             served |-> 0, ended |-> FALSE, queue |-> <<>>,
                             taken |-> <<>>, yielded |-> <<>>, late |-> FALSE,
                             result |-> <<>>])
    /\ UNCHANGED <<stream_id, connection, iterators, request_futures, arrived,
                   poll_task, subprocess, refs, handles, restLmtp>>

\* stream_iterator that makes its queue and files it nowhere
SetdefaultOnly(sid, c) ==
    [i \in 1..sid |-> IF i \in DOMAIN iterators THEN iterators[i] ELSE <<>>]

\* stream_iterator, its first lines: q = asyncio.Queue() and
\* self.iterators.setdefault(stream_id, []).append(q), the queue of call c
SetdefaultAppend(sid, c) ==
    [i \in 1..sid |->
        IF i = sid
        THEN Append(IF i \in DOMAIN iterators THEN iterators[i] ELSE <<>>, c)
        ELSE IF i \in DOMAIN iterators THEN iterators[i] ELSE <<>>]

\* the first advance with the counter left as it is
FirstAdvanceNoIncrement(c) ==
    /\ c \in DOMAIN lmtp
    /\ lmtp[c].pc = "created"
    /\ subprocess = "alive"
    /\ stream_id' = stream_id
    /\ connection' = Append(connection, [type |-> lmtp[c].kind, stream_id |-> stream_id'])
    /\ IF lmtp[c].kind = "REQUEST"
       THEN /\ request_futures' = {f \in request_futures : f[1] # stream_id'}
                                      \cup {<<stream_id', c>>}
            /\ lmtp' = [lmtp EXCEPT ![c].pc = "waiting", ![c].stream_id = stream_id']
            /\ UNCHANGED iterators
       ELSE /\ iterators' = SetdefaultAppend(stream_id', c)
            /\ lmtp' = [lmtp EXCEPT ![c].pc = "streaming", ![c].stream_id = stream_id']
            /\ UNCHANGED request_futures
    /\ UNCHANGED <<arrived, poll_task, subprocess, refs, handles, restLmtp>>

\* the body of generate, score or request up to its first await: the counter
\* is incremented and sent with the payload; request files its future under
\* it, generate and score start stream_iterator(self.stream_id), which files
\* its queue under it.  The queue of call c is named by c.
FirstAdvance(c) ==
    /\ c \in DOMAIN lmtp
    /\ lmtp[c].pc = "created"
    /\ subprocess = "alive"
    /\ stream_id' = stream_id + 1
    /\ connection' = Append(connection, [type |-> lmtp[c].kind, stream_id |-> stream_id'])
    /\ IF lmtp[c].kind = "REQUEST"
       THEN /\ request_futures' = {f \in request_futures : f[1] # stream_id'}
                                      \cup {<<stream_id', c>>}
            /\ lmtp' = [lmtp EXCEPT ![c].pc = "waiting", ![c].stream_id = stream_id']
            /\ UNCHANGED iterators
       ELSE /\ iterators' = SetdefaultAppend(stream_id', c)
            /\ lmtp' = [lmtp EXCEPT ![c].pc = "streaming", ![c].stream_id = stream_id']
            /\ UNCHANGED request_futures
    /\ UNCHANGED <<arrived, poll_task, subprocess, refs, handles, restLmtp>>

\* the poll task runs for the first time and sets poll_running
PollStart ==
    /\ poll_task = "created"
    /\ poll_task' = "running"
    /\ UNCHANGED <<stream_id, lmtp, connection, iterators, request_futures,
                   arrived, subprocess, refs, handles, restLmtp>>

\* every frame goes to the queues filed under the first stream id
ConsumersOfFirst(sid) ==
    IF 1 \in DOMAIN iterators THEN iterators[1] ELSE <<>>

\* consumers = self.iterators.get(stream_id, [])
Consumers(sid) ==
    IF sid \in DOMAIN iterators THEN iterators[sid] ELSE <<>>

SeqRange(s) == {s[i] : i \in DOMAIN s}

\* for q in consumers: q.put_nowait(d).  late records that a frame was put on
\* the queue of a cancelled iterator.
PutNowait(cs, d, served) ==
    [c \in DOMAIN lmtp |->
        [lmtp[c] EXCEPT
            !.queue = IF c \in SeqRange(cs) THEN Append(@, d) ELSE @,
            !.late = IF c \in SeqRange(cs) /\ lmtp[c].pc = "cancelled" THEN TRUE ELSE @,
            !.served = IF c = served THEN @ + 1 ELSE @,
            !.ended = IF c = served
                      THEN (d.finish_reason # "null" \/ d.error # "null")
                      ELSE @]]

\* the subprocess sends the next TOKEN of the stream of call c, whether or
\* not the iterator of c is still listening; poll_messages receives it and
\* puts it on the queues filed under its stream id
PollFrame(c, finish_reason, error) ==
    /\ c \in DOMAIN lmtp
    /\ lmtp[c].kind # "REQUEST"
    /\ lmtp[c].pc # "created"
    /\ ~lmtp[c].ended
    /\ arrived < LmtpFrames
    /\ subprocess = "alive"
    /\ poll_task = "running"
    /\ LET d == TokenFrame(lmtp[c].stream_id, lmtp[c].served + 1, finish_reason, error)
       IN /\ arrived' = arrived + 1
          /\ lmtp' = PutNowait(Consumers(d.stream_id), d, c)
    /\ UNCHANGED <<stream_id, connection, iterators, request_futures,
                   poll_task, subprocess, refs, handles, restLmtp>>

\* a TOKEN that is not the last one of its stream
PollToken(c) ==
    /\ c \in DOMAIN lmtp
    /\ PollFrame(c, "null", "null")

\* the last TOKEN of a stream: finish_reason is set
PollLastToken(c) ==
    /\ c \in DOMAIN lmtp
    /\ PollFrame(c, "length", "null")

\* a TOKEN that reports an error of the stream
PollError(c) ==
    /\ c \in DOMAIN lmtp
    /\ PollFrame(c, "null", "error")

\* poll_messages receives the MSG that answers request c: the future filed
\* under its stream id is popped and, unless wait_for has cancelled it,
\* resolved
PollMsg(c) ==
    /\ c \in DOMAIN lmtp
    /\ lmtp[c].kind = "REQUEST"
    /\ lmtp[c].pc # "created"
    /\ ~lmtp[c].ended
    /\ arrived < LmtpFrames
    /\ subprocess = "alive"
    /\ poll_task = "running"
    /\ LET d == TokenFrame(lmtp[c].stream_id, 1, "null", "null")
           futs == {f \in request_futures : f[1] = d.stream_id}
       IN /\ arrived' = arrived + 1
          /\ request_futures' = request_futures \ futs
          /\ lmtp' = [k \in DOMAIN lmtp |->
                [lmtp[k] EXCEPT
                    !.ended = IF k = c THEN TRUE ELSE @,
                    !.served = IF k = c THEN @ + 1 ELSE @,
                    !.result = IF (\E f \in futs : f[2] = k) /\ lmtp[k].pc = "waiting"
                               THEN <<d>> ELSE @,
                    !.pc = IF (\E f \in futs : f[2] = k) /\ lmtp[k].pc = "waiting"
                           THEN "done" ELSE @]]
    /\ UNCHANGED <<stream_id, connection, iterators, poll_task, subprocess,
                   refs, handles, restLmtp>>

\* request: wait_for gives up after 5 seconds, the future stays filed
RequestTimeout(c) ==
    /\ c \in DOMAIN lmtp
    /\ lmtp[c].pc = "waiting"
    /\ lmtp' = [lmtp EXCEPT ![c].pc = "timeout"]
    /\ UNCHANGED <<stream_id, connection, iterators, request_futures, arrived,
                   poll_task, subprocess, refs, handles, restLmtp>>

\* the loop body of stream_iterator for one item of the queue: None ends the
\* iteration, an error raises LMTPStreamError, a frame with finish_reason is
\* yielded and ends the iteration, any other frame is yielded
StreamIteratorItem(call, item) ==
    IF "none" \in DOMAIN item
    THEN [call EXCEPT !.pc = "done"]
    ELSE IF item.error # "null"
    THEN [call EXCEPT !.pc = "raised"]
    ELSE IF item.finish_reason # "null"
    THEN [call EXCEPT !.yielded = Append(@, item), !.pc = "done"]
    ELSE [call EXCEPT !.yielded = Append(@, item)]

\* the consumer advances the iterator of call c: item = await q.get()
StreamIteratorNext(c) ==
    /\ c \in DOMAIN lmtp
    /\ lmtp[c].pc = "streaming"
    /\ lmtp[c].queue # <<>>
    /\ lmtp' = [lmtp EXCEPT ![c] =
          StreamIteratorItem([@ EXCEPT !.queue = Tail(@), !.taken = Append(@, Head(lmtp[c].queue))],
                             Head(lmtp[c].queue))]
    /\ UNCHANGED <<stream_id, connection, iterators, request_futures, arrived,
                   poll_task, subprocess, refs, handles, restLmtp>>

\* the consumer cancels the iterator of call c (the task awaiting it is
\* cancelled, or the generator is closed): stream_iterator has no cleanup,
\* the queue stays filed
StreamIteratorCancel(c) ==
    /\ c \in DOMAIN lmtp
    /\ lmtp[c].pc = "streaming"
    /\ lmtp' = [lmtp EXCEPT ![c].pc = "cancelled"]
    /\ UNCHANGED <<stream_id, connection, iterators, request_futures, arrived,
                   poll_task, subprocess, refs, handles, restLmtp>>

\* client.ref(): a new LMTPMultiProcessingClientRef, referenced once
ClientRef ==
    /\ Len(handles) < LmtpRefs
    /\ refs' = Append(refs, 1)
    /\ handles' = Append(handles, [ref |-> Len(refs) + 1, state |-> "open"])
    /\ UNCHANGED <<stream_id, lmtp, connection, iterators, request_futures,
                   arrived, poll_task, subprocess, restLmtp>>

\* ref.ref() on the wrapper w: its count goes up by one
RefRef(w) ==
    /\ Len(handles) < LmtpRefs
    /\ w \in DOMAIN refs
    /\ \E h \in DOMAIN handles : handles[h].ref = w /\ handles[h].state = "open"
    /\ refs' = [refs EXCEPT ![w] = @ + 1]
    /\ handles' = Append(handles, [ref |-> w, state |-> "open"])
    /\ UNCHANGED <<stream_id, lmtp, connection, iterators, request_futures,
                   arrived, poll_task, subprocess, restLmtp>>

\* close() that leaves the queues as they are
ClientCloseQueuesUntouched(ls) ==
    ls

\* client.close(), the part that acts on the queues: None is put on every
\* queue filed in self.iterators
ClientCloseQueues(ls) ==
    [c \in DOMAIN ls |->
        [ls[c] EXCEPT !.queue =
            IF \E sid \in DOMAIN iterators : c \in SeqRange(iterators[sid])
            THEN Append(@, NoneItem) ELSE @]]

\* the holder of handle h calls close() on its wrapper: the count goes down
\* by one and, at zero, client.close() runs: the poll task is cancelled if
\* it has set poll_running, the queues are signalled, the subprocess is
\* terminated
RefClose(h) ==
    /\ h \in DOMAIN handles
    /\ handles[h].state = "open"
    /\ refs[handles[h].ref] > 0
    /\ handles' = [handles EXCEPT ![h].state = "closed"]
    /\ refs' = [refs EXCEPT ![handles[h].ref] = @ - 1]
    /\ IF refs'[handles[h].ref] = 0
       THEN /\ poll_task' = IF poll_task = "running" THEN "cancelled" ELSE poll_task
            /\ lmtp' = ClientCloseQueues(lmtp)
            /\ subprocess' = "terminated"
       ELSE UNCHANGED <<poll_task, lmtp, subprocess>>
    /\ UNCHANGED <<stream_id, connection, iterators, request_futures, arrived, restLmtp>>

NextLmtp ==
    \/ \E kind \in {"GENERATE", "SCORE", "REQUEST"} : LmtpCall(kind)
    \/ \E c \in 1..LmtpCalls : FirstAdvance(c)
    \/ PollStart
    \/ \E c \in 1..LmtpCalls : PollToken(c)
    \/ \E c \in 1..LmtpCalls : PollLastToken(c)
    \/ \E c \in 1..LmtpCalls : PollError(c)
    \/ \E c \in 1..LmtpCalls : PollMsg(c)
    \/ \E c \in 1..LmtpCalls : RequestTimeout(c)
    \/ \E c \in 1..LmtpCalls : StreamIteratorNext(c)
    \/ \E c \in 1..LmtpCalls : StreamIteratorCancel(c)

\* a client that is handed out by reference and closed: its streams are
\* generate calls
\* client.generate(...) is called on a client that is handed out by reference
LmtpStream ==
    /\ Len(lmtp) < LmtpStreams
    /\ LmtpCall("GENERATE")

NextLmtpRef ==
    \/ LmtpStream
    \/ \E c \in 1..LmtpStreams : FirstAdvance(c)
    \/ PollStart
    \/ \E c \in 1..LmtpStreams : PollToken(c)
    \/ \E c \in 1..LmtpStreams : PollLastToken(c)
    \/ \E c \in 1..LmtpStreams : PollError(c)
    \/ \E c \in 1..LmtpStreams : StreamIteratorNext(c)
    \/ \E c \in 1..LmtpStreams : StreamIteratorCancel(c)
    \/ ClientRef
    \/ \E w \in 1..LmtpRefs : RefRef(w)
    \/ \E h \in 1..LmtpRefs : RefClose(h)

(***************************************************************************)
(* Part 8.  response_buffer over a stream of a chat model                  *)
(*                                                                         *)
(* Text is a sequence of characters.  The chunks are those chat_api makes  *)
(* of the provider's deltas, and the end-of-text chunk __anext__ adds.     *)
(***************************************************************************)

\* number of chunks chat_api yields for a response
BufferChunks == 2
\* number of characters of one delta
DeltaLen == 2
\* number of get calls made on the buffer
BufferGets == 3

BufferChars == {"a", "b"}

\* the "content" of a delta: a non-empty text
Deltas == UNION {[1..n -> BufferChars] : n \in 1..DeltaLen}

\* the chunk chat_api yields for a delta: the tokenizer gives one token for
\* every character, the offsets and logprobs are zeros
ChatChunk(text) ==
    [text |-> text,
     text_offset |-> [t \in DOMAIN text |-> 0],
     token_logprobs |-> [t \in DOMAIN text |-> 0],
     tokens |-> [t \in DOMAIN text |-> <<text[t]>>],
     top_logprobs |-> [t \in DOMAIN text |-> <<text[t]>>]]

\* the chunk __anext__ yields at the end of a stream that did not finish
\* with "length"
EosChunk ==
    [text |-> <<"<|endoftext|>">>,
     text_offset |-> <<0>>,
     token_logprobs |-> <<0>>,
     tokens |-> <<<<"<|endoftext|>">>>>,
     top_logprobs |-> <<<<"<|endoftext|>">>>>]

\* response_buffer.__init__ without fixed_data
EmptyBuffer ==
    [text |-> <<>>, text_offset |-> <<>>, token_logprobs |-> <<>>,
     tokens |-> <<>>, top_logprobs |-> <<>>, num_tokens |-> 0]

\* response_buffer._append
BufferAppend(b, data) ==
    [text |-> b.text \o data.text,
     text_offset |-> b.text_offset \o data.text_offset,
     token_logprobs |-> b.token_logprobs \o data.token_logprobs,
     tokens |-> b.tokens \o data.tokens,
     top_logprobs |-> b.top_logprobs \o data.top_logprobs,
     num_tokens |-> Len(b.tokens \o data.tokens)]

\* s[a:b] of a Python string for a, b >= 0; b = -1 stands for None
PySlice(s, a, b) ==
    LET hi == IF b = -1 \/ b > Len(s) THEN Len(s) ELSE b
    IN IF a >= hi THEN <<>> ELSE SubSeq(s, a + 1, hi)

\* the loop of get: chunks are pulled while the buffer is too short and the
\* iterator has not ended; the result is the buffer and what the iterator
\* has left
RECURSIVE BufferPull(_, _, _)
BufferPull(b, it, i) ==
    IF b.num_tokens <= i /\ it # <<>>
    THEN BufferPull(BufferAppend(b, Head(it)), Tail(it), i)
    ELSE [buffer |-> b, iterator |-> it]

\* the record get builds for index i (0-based) of a buffer that holds it
BufferItem(b, i) ==
    [text |-> PySlice(b.text, b.text_offset[i + 1],
                      IF i + 1 < Len(b.text_offset) THEN b.text_offset[i + 2] ELSE -1),
     text_offset |-> b.text_offset[i + 1],
     token_logprobs |-> b.token_logprobs[i + 1],
     tokens |-> b.tokens[i + 1],
     top_logprobs |-> b.top_logprobs[i + 1]]

InitBuf ==
    /\ \E n \in 1..BufferChunks : \E texts \in [1..n -> Deltas] : \E eos \in BOOLEAN :
          buffer_iterator = [k \in 1..n |-> ChatChunk(texts[k])]
                               \o (IF eos THEN <<EosChunk>> ELSE <<>>)
    /\ buffer = EmptyBuffer
    /\ returned = <<>>
    /\ reserved = 0 /\ calls = <<>> /\ batcherPc = "throttle"
    /\ queue = <<>> /\ tasks = <<>> /\ complete_request_queue = <<>>
    /\ fillPc = "get" /\ request_ctr = 0 /\ requests = <<>>
    /\ slices = <<>> /\ its = <<>> /\ out = <<>>
    /\ callerState = "ready" /\ kw_timeout = "None" /\ finish = "null" /\ enqueued = <<>> /\ available = TRUE
    /\ tokenizer = "set"
    /\ window = <<>> /\ work = <<>> /\ futures = <<>>
    /\ logit_bias = <<>> /\ request_bias = <<>>
    /\ chat_prompt = <<>> /\ messages = <<>>
    /\ stream_id = 0 /\ lmtp = <<>> /\ connection = <<>>
    /\ iterators = <<>> /\ request_futures = {}
    /\ arrived = 0 /\ poll_task = "created" /\ subprocess = "alive"
    /\ refs = <<>> /\ handles = <<>>
    /\ api_kind = "none" /\ resp_content = <<>> /\ chunk_data = <<>>
    /\ api_yielded = <<>> /\ apiPc = "idle"

\* await buffer.get(i): the loop, then IndexError or the record
BufferGet(i) ==
    /\ Len(returned) < BufferGets
    /\ LET pulled == BufferPull(buffer, buffer_iterator, i)
       IN /\ buffer' = pulled.buffer
          /\ buffer_iterator' = pulled.iterator
          /\ returned' = Append(returned,
                IF i >= pulled.buffer.num_tokens
                THEN [i |-> i, raised |-> "IndexError"]
                ELSE [i |-> i, raised |-> "no", item |-> BufferItem(pulled.buffer, i)])
    /\ UNCHANGED restBuf

NextBuf == \E i \in 0..(BufferChunks * DeltaLen + 1) : BufferGet(i)

(***************************************************************************)
(* Part 9.  The frames of a provider response                              *)
(*                                                                         *)
(* completion_api and chat_api cut the body of the response into complete  *)
(* frames ("data: ..." lines), decode each as JSON into the local `data`   *)
(* and yield it.  A frame is the JSON of a chunk with one choice ("text"), *)
(* of a chat chunk whose delta has no content ("annotation"), of an error  *)
(* ("error"), or it is not JSON at all ("bad").                            *)
(***************************************************************************)

\* number of frames of one response
ApiFrames == 3

\* json.loads of a frame: the dict of the chunk, whose choices are those of
\* the provider (raw: a chat choice still holds its "delta")
JsonLoads(frame) ==
    [id |-> frame.id, kind |-> frame.kind, raw |-> TRUE, choices |-> 1]

\* what the generator does with `data` after the try / except around
\* json.loads, given as [pc, data, yield]: an unbound `data` raises
\* UnboundLocalError; an "error" key raises; chat_api reads c["delta"] of
\* every choice (KeyError on a choice it has already rewritten), keeps the
\* choices with content and stores them in data["choices"]; data is yielded
ProcessData(api, d) ==
    IF d = <<>> THEN [pc |-> "error", data |-> d, yield |-> <<>>]
    ELSE IF d[1].kind = "error" THEN [pc |-> "error", data |-> d, yield |-> <<>>]
    ELSE IF api = "completion" THEN [pc |-> "stream", data |-> d, yield |-> d]
    ELSE IF ~d[1].raw /\ d[1].choices > 0
         THEN [pc |-> "error", data |-> d, yield |-> <<>>]
    ELSE LET choices == IF d[1].raw /\ d[1].kind = "text" THEN 1 ELSE 0
             rewritten == <<[d[1] EXCEPT !.raw = FALSE, !.choices = choices]>>
         IN [pc |-> "stream", data |-> rewritten, yield |-> rewritten]

InitApi ==
    /\ api_kind \in {"completion", "chat"}
    /\ \E n \in 1..ApiFrames :
          \E ks \in [1..n -> IF api_kind = "chat"
                              THEN {"text", "annotation", "error", "bad"}
                              ELSE {"text", "error", "bad"}] :
             resp_content = [i \in 1..n |-> [id |-> i, kind |-> ks[i]]]
    /\ chunk_data = <<>>
    /\ api_yielded = <<>>
    /\ apiPc = "stream"
    /\ reserved = 0 /\ calls = <<>> /\ batcherPc = "throttle"
    /\ queue = <<>> /\ tasks = <<>> /\ complete_request_queue = <<>>
    /\ fillPc = "get" /\ request_ctr = 0 /\ requests = <<>>
    /\ slices = <<>> /\ its = <<>> /\ out = <<>>
    /\ callerState = "ready" /\ kw_timeout = "None" /\ finish = "null" /\ enqueued = <<>> /\ available = TRUE
    /\ tokenizer = "set"
    /\ window = <<>> /\ work = <<>> /\ futures = <<>>
    /\ logit_bias = <<>> /\ request_bias = <<>>
    /\ chat_prompt = <<>> /\ messages = <<>>
    /\ stream_id = 0 /\ lmtp = <<>> /\ connection = <<>>
    /\ iterators = <<>> /\ request_futures = {}
    /\ arrived = 0 /\ poll_task = "created" /\ subprocess = "alive"
    /\ refs = <<>> /\ handles = <<>>
    /\ buffer_iterator = <<>> /\ buffer = <<>> /\ returned = <<>>

\* the next complete frame is taken and the generator goes on with `data`
\* bound to d
FrameStep(d) ==
    LET r == ProcessData(api_kind, d)
    IN /\ resp_content' = Tail(resp_content)
       /\ chunk_data' = r.data
       /\ api_yielded' = api_yielded \o r.yield
       /\ apiPc' = r.pc
       /\ UNCHANGED <<api_kind, restApi>>

\* a frame that json.loads decodes: `data` is the new dict
ReadFrame ==
    /\ apiPc = "stream"
    /\ resp_content # <<>>
    /\ Head(resp_content).kind # "bad"
    /\ FrameStep(<<JsonLoads(Head(resp_content))>>)

\* a frame on which json.loads raises JSONDecodeError: the except branch
\* prints, `data` is what it was
ReadUndecodableFrame ==
    /\ apiPc = "stream"
    /\ resp_content # <<>>
    /\ Head(resp_content).kind = "bad"
    /\ FrameStep(chunk_data)

\* [DONE] after the last frame: the generator returns
ReadDone ==
    /\ apiPc = "stream"
    /\ resp_content = <<>>
    /\ apiPc' = "done"
    /\ UNCHANGED <<api_kind, resp_content, chunk_data, api_yielded, restApi>>

NextApi ==
    \/ ReadFrame
    \/ ReadUndecodableFrame
    \/ ReadDone

(***************************************************************************)
(* Specifications                                                          *)
(***************************************************************************)

SpecCap == InitCap /\ [][NextCap]_vars
SpecBatch == InitBatch /\ [][NextBatch]_vars
SpecIter == InitIter /\ [][NextIter]_vars
SpecDriver == InitDriver /\ [][NextDriver]_vars
SpecBias == InitBias /\ [][NextBias]_vars
SpecChat == InitChat /\ [][NextChat]_vars
SpecLmtp == InitLmtp /\ [][NextLmtp]_vars
SpecLmtpRef == InitLmtp /\ [][NextLmtpRef]_vars
SpecBuf == InitBuf /\ [][NextBuf]_vars
SpecBatchRecover == InitBatch /\ [][NextBatchRecover]_vars
SpecApi == InitApi /\ [][NextApi]_vars
SpecIterTokenizer == InitIterTokenizer /\ [][NextIter]_vars

\* The event loop runs every task that is ready, so a step that stays enabled is
\* taken; every provider stream that was opened ends (by [DONE] or by an error).
FairSpecCap ==
    /\ SpecCap
    /\ WF_vars(BatcherPass)
    /\ WF_vars(BatcherEmit)
    /\ \A c \in CallIds : WF_vars(StartCall(c))
    /\ \A c \in CallIds : WF_vars(ResumeCall(c))
    /\ \A c \in CallIds : WF_vars(Acquire(c))
    /\ \A c \in CallIds : WF_vars(StreamDone(c) \/ StreamError(c))

\* the slices a caller's iteration can create
\* the consumer of every stream keeps advancing its iterator while an item is
\* on the queue
FairSpecLmtpRef ==
    /\ InitLmtp
    /\ [][NextLmtpRef]_vars
    /\ \A c \in 1..LmtpStreams : WF_vars(StreamIteratorNext(c))

\* as FairSpecCap; nothing obliges an abandoned generator to be collected
FairSpecCapConsumer ==
    /\ InitCap /\ [][NextCapConsumer]_vars
    /\ WF_vars(BatcherPass)
    /\ WF_vars(BatcherEmit)
    /\ \A c \in CallIds : WF_vars(StartCall(c))
    /\ \A c \in CallIds : WF_vars(ResumeCall(c))
    /\ \A c \in CallIds : WF_vars(Acquire(c))
    /\ \A c \in CallIds : WF_vars(StreamDone(c) \/ StreamError(c))

SliceIds == 1..(2 * MaximumRetries + 2)

\* the event loop runs every task that can run, and a provider response that
\* is open delivers its next chunk or ends; nothing obliges it to fail
FairSpecIter ==
    /\ SpecIter
    /\ WF_vars(GetItem)
    /\ WF_vars(GetTimeout)
    /\ WF_vars(Recover)
    /\ \A s \in SliceIds : WF_vars(Digest(s, 1))
    /\ \A s \in SliceIds : WF_vars(Finish(s))

\* as FairSpecIter, with the caller calling next() until the iteration ends
FairSpecIterShutdown ==
    /\ InitIter /\ [][NextIterShutdown]_vars
    /\ WF_vars(CallerNext)
    /\ WF_vars(GetItem)
    /\ WF_vars(GetTimeout)
    /\ WF_vars(Recover)
    /\ \A s \in SliceIds : WF_vars(Digest(s, 1))
    /\ \A s \in SliceIds : WF_vars(Finish(s))

\* the event loop runs every task that can run; a provider response that is
\* open may stay silent
StallSpecIter ==
    /\ SpecIter
    /\ WF_vars(GetItem)
    /\ WF_vars(GetTimeout)
    /\ WF_vars(Recover)

(***************************************************************************)
(* Claims about the capacity governor                                      *)
(***************************************************************************)

CallEnded(c) == calls[c].pc \in {"done", "error"}

\* C1: in every reachable state Capacity.reserved <= Capacity.total, whatever
\* the number and size of the provider calls that run concurrently.
C1_ReservedWithinTotal == reserved <= CapacityTotal

C7_ReservedNonNegative == reserved >= 0

\* C8: for every slice, reserved is incremented exactly once before the first
\* chunk of the call is produced and decremented exactly once after its end.
C8_ReservedOncePerSlice ==
    \A c \in CallIds :
        calls[c].chunks > 0 =>
            /\ calls[c].acquiredBefore = 1
            /\ CallEnded(c) => calls[c].acquires = 1 /\ calls[c].releases = 1

(***************************************************************************)
(* Claims about the stream iterator                                        *)
(***************************************************************************)

RECURSIVE ConcatTokens(_)
ConcatTokens(chunks) ==
    IF chunks = <<>> THEN <<>> ELSE Head(chunks).tokens \o ConcatTokens(Tail(chunks))

RECURSIVE ConcatText(_)
ConcatText(chunks) ==
    IF chunks = <<>> THEN <<>> ELSE Head(chunks).text \o ConcatText(Tail(chunks))

IsPrefix(a, b) == Len(a) <= Len(b) /\ a = SubSeq(b, 1, Len(a))

\* what the caller of an uninterrupted stream is yielded: the echoed prompt,
\* the completion and, unless the completion ended by length, the end-of-text token
Uninterrupted == IF finish = "length" THEN WorldTokens ELSE Append(WorldTokens, EndOfText)

\* C2: after recovery the caller observes the continuation of what it had been
\* yielded, nothing yielded again and nothing skipped: the yielded tokens and
\* text are at every moment a prefix of those of an uninterrupted stream, and
\* are all of them when the iteration has stopped.
C2_RecoveredEqualsUninterrupted ==
    /\ IsPrefix(ConcatTokens(out), Uninterrupted)
    /\ ConcatText(out) = Flatten(ConcatTokens(out))
    /\ callerState = "stopped" => ConcatTokens(out) = Uninterrupted

\* a recovery has taken place after the caller had been yielded a token, and
\* the caller has been yielded the whole stream
C2_Witness ==
    /\ Len(slices) >= 2
    /\ slices[2].prompt # OriginalPrompt \/ Len(slices[2].prompt) > 1
    /\ callerState = "stopped"
    /\ ConcatTokens(out) = Uninterrupted

\* C3: a next() in progress eventually returns a chunk or raises (or ends the
\* iteration); it never blocks forever, however the driver failed.
C3_NextNeverBlocks == (callerState = "waiting") ~> (callerState # "waiting")

\* C4: every item the iterator has yielded to the caller is a chunk, never a
\* RecoveryAttempt and never the terminator.
C4_OnlyChunksYielded == \A i \in 1..Len(out) : out[i].kind = "chunk"

\* chunks have been yielded on the normal path and, after a recovery, a
\* partial chunk and the end-of-text chunk
C4_Witness ==
    /\ Len(slices) >= 2
    /\ out # <<>> /\ "finish_reason" \in DOMAIN out[1]
    /\ \E i \in 1..Len(out) :
          DOMAIN out[i] = {"kind", "text", "tokens"} /\ out[i] # EndOfTextChunk
    /\ \E i \in 1..Len(out) : out[i] = EndOfTextChunk

IsDriverChunk(c) == c.kind = "chunk" /\ c # EndOfTextChunk

\* C5: as long as no recovery takes place on the caller's slice, the chunks
\* yielded followed by the chunks still on the data_queue are the chunks the
\* driver enqueued, in the order it enqueued them.
C5_FifoDelivery ==
    (Len(slices) = 1 /\ its[1].retries = 0) =>
        SelectSeq(out, IsDriverChunk) \o SelectSeq(slices[1].data_queue, IsDriverChunk) = enqueued

\* the whole stream was yielded in two chunks with no recovery
C5_Witness ==
    /\ Len(slices) = 1 /\ its[1].retries = 0
    /\ Len(enqueued) >= 2
    /\ callerState = "stopped"
    /\ SelectSeq(out, IsDriverChunk) = enqueued

\* C13: the replacement requests submitted for the caller's iterator, those
\* of nested recoveries included, never number more than maximum_retries
C13_RetryBudget == Len(slices) - 1 <= MaximumRetries

\* C14: for every iterator, the number of consumed tokens never decreases,
\* neither when a chunk is read nor when a recovery replaces the slice
C14_ConsumedNeverShrinks ==
    [][\A i \in 1..Len(its) : i <= Len(its') =>
          Len(its'[i].consumed_tokens) >= Len(its[i].consumed_tokens)]_vars

\* the caller's iterator has taken over a replacement slice after it had
\* consumed tokens, and another iterator is skipping inside a later recovery
C14_Witness ==
    /\ Len(its) = 2
    /\ its[1].slice # 1
    /\ Len(its[1].consumed_tokens) > 0
    /\ Len(its[2].consumed_tokens) > 0

\* the end-of-text chunks among what the caller has been given
EndOfTextYielded == SelectSeq(out, LAMBDA c : c = EndOfTextChunk)

\* C16: when the response ends with finish_reason "length" the iterator
\* never yields a made-up end-of-text chunk; when it ends with finish_reason
\* null it yields at most one, as the last element, and exactly one once the
\* iteration has stopped
C16_EndOfTextOnce ==
    IF finish = "length"
    THEN EndOfTextYielded = <<>>
    ELSE /\ Len(EndOfTextYielded) <= 1
         /\ EndOfTextYielded # <<>> => out[Len(out)] = EndOfTextChunk
         /\ callerState = "stopped" => Len(EndOfTextYielded) = 1

\* a response without finish_reason has been read to its end after a recovery
C16_Witness ==
    /\ finish = "null"
    /\ callerState = "stopped"
    /\ Len(slices) > 1
    /\ Len(out) > 1
    /\ out[Len(out)] = EndOfTextChunk

(***************************************************************************)
(* Claims about the batcher                                                *)
(***************************************************************************)
\* the fields two requests must share to be fused into one provider call
BatchKey(r) ==
    <<r.model, r.max_tokens, r.temperature, r.logprobs, r.user,
      BiasItems(r.logit_bias), r.echo, r.prompt.type>>

Descriptors == {complete_request_queue[i] : i \in 1..Len(complete_request_queue)}
Members(d) == {requests[d.futures[i]] : i \in 1..Len(d.futures)}

\* C9: all member requests of an emitted provider call descriptor have the
\* same BatchKey.
C9_SingletonBatchKey ==
    \A d \in Descriptors : \A r1, r2 \in Members(d) : BatchKey(r1) = BatchKey(r2)

\* a fused call of two requests was emitted from a window that also held a
\* request of another BatchKey
C9_Witness ==
    /\ \E d \in Descriptors : Len(d.prompt) >= 2
    /\ \E d1, d2 \in Descriptors :
          \E r1 \in Members(d1), r2 \in Members(d2) :
             /\ BatchKey(r1) # BatchKey(r2)
             /\ r2.request_id = r1.request_id + 2

\* the requests of the collection window that a step of the batcher closes,
\* in queue order, and the descriptors the step emits
WindowTasks == tasks \o SubSeq(queue, 1, Len(queue) - Len(queue'))
Emitted == SubSeq(complete_request_queue', Len(complete_request_queue) + 1,
                  Len(complete_request_queue'))

\* the positions of the descriptor d at which the prompt of request r sits
PromptPositions(d, r) == {i \in 1..Len(d.prompt) : d.prompt[i] = r.prompt}

\* C11: when a collection window closes, the non-chat requests of the window
\* that share a BatchKey are emitted in one provider call, which holds the
\* prompt of each exactly once and in queue order, and in no other call.
C11_OneCallPerPartition ==
    [][complete_request_queue' # complete_request_queue =>
         \A a, b \in 1..Len(WindowTasks) :
            LET ra == WindowTasks[a]
                rb == WindowTasks[b]
            IN (a <= b /\ ~task_is_chat(ra) /\ ~task_is_chat(rb)
                  /\ BatchKey(ra) = BatchKey(rb)) =>
               \E i \in 1..Len(Emitted) :
                  /\ Cardinality(PromptPositions(Emitted[i], ra)) = 1
                  /\ Cardinality(PromptPositions(Emitted[i], rb)) = 1
                  /\ \A pa \in PromptPositions(Emitted[i], ra),
                        pb \in PromptPositions(Emitted[i], rb) : a < b => pa < pb
                  /\ \A j \in 1..Len(Emitted) :
                        j # i => PromptPositions(Emitted[j], ra) = {}
      ]_vars

\* C10: a provider call descriptor issued for a chat-style request carries
\* exactly one prompt.
C10_ChatNeverFused ==
    \A d \in Descriptors :
        (task_is_chat(d) \/ \E r \in Members(d) : task_is_chat(r)) => Len(d.prompt) = 1

(***************************************************************************)
(* Claims about the driver workers                                         *)
(***************************************************************************)

\* the slice a resolved future holds
SliceOf(f) == work[futures[f].stream].slices[futures[f].index]

\* an item of a data_queue that is not a choice: the terminator or a
\* RecoveryAttempt
IsTerminalItem(item) == "kind" \in DOMAIN item

\* C12: a choice with index i is enqueued only on the slice handed to the
\* future of the i-th member of the call, and that slice's kwargs hold the
\* i-th prompt and the i-th request id: a caller whose future is resolved
\* holds a slice with its own prompt and request id, and every choice on
\* that slice continues its own prompt
C12_ChoicesStayAligned ==
    /\ \A f \in DOMAIN futures : futures[f].state = "result" =>
          /\ SliceOf(f).kwargs.prompt = window[f].prompt
          /\ SliceOf(f).kwargs.request_id = window[f].request_id
          /\ \A j \in 1..Len(SliceOf(f).data_queue) :
                ~IsTerminalItem(SliceOf(f).data_queue[j]) =>
                    /\ SliceOf(f).data_queue[j].continues = window[f].prompt
                    /\ SliceOf(f).data_queue[j].index = futures[f].index - 1
    /\ \A k \in DOMAIN work : \A i \in 1..Len(work[k].slices) :
          futures[work[k].futures[i]] = [state |-> "result", stream |-> k, index |-> i]

\* a call of two members has delivered a choice to each of its slices
C12_Witness ==
    \E k \in DOMAIN work :
        /\ Len(work[k].slices) = 2
        /\ \A i \in 1..2 : /\ work[k].slices[i].data_queue # <<>>
                            /\ ~IsTerminalItem(work[k].slices[i].data_queue[1])

\* the errors the worker must not retry: a message with one of the phrases,
\* or any error of a call whose api_config asks for errors to be raised
Definitive(e, kwargs) ==
    /\ e # NoError
    /\ \/ e.msg \cap ErrorPhrases # {}
       \/ kwargs.api_config = "errors_raise"

\* C15: after an attempt has failed with a definitive error the worker makes
\* no further attempt for the descriptor (it has left the attempt loop) and
\* every member future is failed with that error
C15_DefinitiveErrorsEndTheCall ==
    \A k \in DOMAIN work :
        (work[k].pc # "queued" /\ Definitive(work[k].error, work[k].kwargs)) =>
            /\ work[k].pc = "failed"
            /\ \A i \in 1..Len(work[k].futures) :
                  futures[work[k].futures[i]] =
                      [state |-> "exception", error |-> work[k].error]

\* a call of two members whose api_config does not ask for errors to be
\* raised has failed on a "logit biases" message
C15_Witness ==
    \E k \in DOMAIN work :
        /\ Len(work[k].futures) = 2
        /\ work[k].pc = "failed"
        /\ is_definitive_error(work[k].error)
        /\ ~ErrorsRaise(work[k].kwargs)

\* the positions of the terminal items on the data_queue of slice i of
\* descriptor k
TerminalItems(k, i) ==
    {j \in DOMAIN work[k].slices[i].data_queue :
        IsTerminalItem(work[k].slices[i].data_queue[j])}

\* C30: every slice of a provider call receives exactly one terminal item,
\* the terminator when the response ends and a RecoveryAttempt when it
\* fails, as the last item of its data_queue: none while the response is
\* open, and no choice after it
C30_OneTerminalItem ==
    \A k \in DOMAIN work : \A i \in DOMAIN work[k].slices :
        LET q == work[k].slices[i].data_queue
        IN /\ TerminalItems(k, i) \subseteq {Len(q)}
           /\ work[k].pc = "streaming" => TerminalItems(k, i) = {}
           /\ work[k].pc = "closed" =>
                 /\ TerminalItems(k, i) = {Len(q)}
                 /\ work[k].slices[i].state = "finished" => q[Len(q)].kind = "None"
                 /\ work[k].slices[i].state = "failed" => q[Len(q)].kind = "RecoveryAttempt"
                 /\ work[k].slices[i].state \in {"finished", "failed"}

\* the response of a call of two members has failed after it had delivered
\* a choice to one of its slices only: both slices end on a RecoveryAttempt
C30_Witness ==
    \E k \in DOMAIN work :
        /\ work[k].pc = "closed"
        /\ Len(work[k].slices) = 2
        /\ Len(work[k].slices[1].data_queue) = 2
        /\ Len(work[k].slices[2].data_queue) = 1
        /\ \A i \in 1..2 : work[k].slices[i].state = "failed"

\* C31: the member futures of a provider call are resolved before any chunk
\* of that call has arrived from the provider
C31_ResolvedBeforeFirstChunk ==
    [][\A f \in DOMAIN futures :
          (futures[f].state = "pending" /\ futures'[f].state = "result")
              => work'[futures'[f].stream].n_chunks = 0]_vars

(***************************************************************************)
(* Claims about the logit_bias of a request                                *)
(***************************************************************************)

\* C17: a logit_bias of more than the limit of entries reaches the queue
\* with exactly that many entries, each an entry of the original map, and
\* with the end-of-text entry whenever the original map had one
C17_TruncatedToLimit ==
    (request_bias # <<>> /\ Len(logit_bias) > LogitBiasLimit) =>
        /\ Len(request_bias[1]) = LogitBiasLimit
        /\ \A i \in 1..Len(request_bias[1]) :
              \E j \in 1..Len(logit_bias) : logit_bias[j] = request_bias[1][i]
        /\ \A j \in 1..Len(logit_bias) : logit_bias[j][1] = EosToken =>
              \E i \in 1..Len(request_bias[1]) : request_bias[1][i] = logit_bias[j]

(***************************************************************************)
(* Claims about the messages of a chat call                                *)
(***************************************************************************)

\* the tags of s, as positions <<start, end>>, from position `from` on
RECURSIVE TagSpans(_, _)
TagSpans(s, from) ==
    LET m == NextMatch(s, from)
    IN IF m = <<>> THEN <<>> ELSE <<<<m[1], m[2]>>>> \o TagSpans(s, m[2] + 1)

\* the role a tag names
RoleOfTag(name) ==
    IF name \in {<<"system">>, <<"user">>, <<"assistant">>} THEN name[1] ELSE "user"

\* the maximal runs of text of s between its tags, each with the role of the
\* tag before it (user when there is none)
TextRuns(s) ==
    LET spans == TagSpans(s, 1)
        n == Len(spans)
        \* run i lies between tag i - 1 and tag i; run n + 1 after the last tag
        first(i) == IF i = 1 THEN 1 ELSE spans[i - 1][2] + 1
        last(i) == IF i = n + 1 THEN Len(s) ELSE spans[i][1] - 1
        role(i) == IF i = 1 THEN "user"
                   ELSE RoleOfTag(SubSeq(s, spans[i - 1][1] + 1, spans[i - 1][2] - 1))
        runs == [i \in 1..(n + 1) |-> [role |-> role(i), content |-> SubSeq(s, first(i), last(i))]]
    IN SelectSeq(runs, LAMBDA r : r.content # <<>>)

\* C18: the messages of a chat call are the maximal runs of text between the
\* tags of the prompt, in order, each under the role of the tag before it
\* (user for an unknown or missing tag)
C18_MessagesAreTextRuns ==
    messages # <<>> => messages[1] = TextRuns(chat_prompt)

IsSerialized(s) ==
    LET spans == TagSpans(s, 1)
        n == Len(spans)
    IN /\ n >= 1
       /\ spans[1][1] = 1
       /\ \A i \in 1..n :
             /\ spans[i][2] = spans[i][1] + 2
             /\ s[spans[i][1] + 1] \in {"system", "user", "assistant"}
             /\ i < n => spans[i + 1][1] > spans[i][2] + 1
       /\ \A j \in 1..Len(s) :
             s[j] = Opener => \E i \in 1..n : spans[i][1] = j

C20_StreamIdsIncrease ==
    /\ \A i, j \in DOMAIN connection :
          i < j => connection[i].stream_id < connection[j].stream_id
    /\ \A c, d \in DOMAIN lmtp :
          (c # d /\ lmtp[c].pc # "created" /\ lmtp[d].pc # "created") =>
              lmtp[c].stream_id # lmtp[d].stream_id
    /\ \A c \in DOMAIN lmtp : lmtp[c].pc # "created" =>
          /\ \E i \in DOMAIN connection :
                connection[i] = [type |-> lmtp[c].kind, stream_id |-> lmtp[c].stream_id]
          /\ lmtp[c].kind # "REQUEST" =>
                /\ lmtp[c].stream_id \in DOMAIN iterators
                /\ iterators[lmtp[c].stream_id] = <<c>>
          /\ lmtp[c].pc = "waiting" => <<lmtp[c].stream_id, c>> \in request_futures

\* a generate and a score call, first advanced in the reverse order of
\* their creation, and both streaming
C20_Witness ==
    /\ Len(lmtp) = 2
    /\ {lmtp[c].kind : c \in 1..2} = {"GENERATE", "SCORE"}
    /\ \A c \in 1..2 : lmtp[c].pc = "streaming"
    /\ lmtp[1].stream_id > lmtp[2].stream_id

\* the frames call c has been given: those its iterator has taken off its
\* queue and those still on it, without the None of close()
FramesGiven(c) ==
    SelectSeq(lmtp[c].taken \o lmtp[c].queue, LAMBDA item : "none" \notin DOMAIN item)

\* C21: poll_messages puts each TOKEN frame on exactly the queues filed
\* under the frame's stream id, in the order the frames arrive, and an MSG
\* frame resolves only the future filed under its stream id: the frames a
\* call has been given are the frames 1, 2, ... the subprocess sent for its
\* own stream, every one of them once, and no frame of another stream
C21_FramesReachOwnStream ==
    \A c \in DOMAIN lmtp :
        /\ \A i \in DOMAIN FramesGiven(c) :
              /\ FramesGiven(c)[i].stream_id = lmtp[c].stream_id
              /\ FramesGiven(c)[i].n = i
        /\ lmtp[c].kind # "REQUEST" => /\ Len(FramesGiven(c)) = lmtp[c].served
                                        /\ lmtp[c].result = <<>>
        /\ lmtp[c].kind = "REQUEST" =>
              /\ FramesGiven(c) = <<>>
              /\ lmtp[c].result # <<>> =>
                    /\ lmtp[c].result[1].stream_id = lmtp[c].stream_id
                    /\ lmtp[c].served = 1
              /\ lmtp[c].pc = "done" <=> lmtp[c].result # <<>>

\* two streams are open at once and each has been given one frame; the call
\* made first was started second, and the other one has taken its frame
C21_Witness ==
    /\ Len(lmtp) = 2
    /\ \A c \in 1..2 : lmtp[c].kind # "REQUEST" /\ Len(FramesGiven(c)) = 1
    /\ lmtp[1].stream_id = 2
    /\ lmtp[2].taken # <<>> /\ lmtp[1].taken = <<>>

\* the iterator of call c has ended on a frame whose finish_reason is set,
\* after the frames before it
EndedOnTerminalFrame(c) ==
    /\ lmtp[c].pc = "done"
    /\ lmtp[c].taken # <<>>
    /\ "none" \notin DOMAIN lmtp[c].taken[Len(lmtp[c].taken)]
    /\ lmtp[c].taken[Len(lmtp[c].taken)].finish_reason # "null"

\* C22 as stated: a stream that receives N TOKEN frames and then one
\* terminal frame with finish_reason set yields exactly the N frames and
\* ends
C22_YieldsOnlyTheFramesBefore ==
    \A c \in DOMAIN lmtp :
        EndedOnTerminalFrame(c) =>
            lmtp[c].yielded = SubSeq(lmtp[c].taken, 1, Len(lmtp[c].taken) - 1)

\* C23: once an iterator is cancelled its queue is no longer filed under its
\* stream id, and no frame that arrives afterwards is put on it
C23_CancelDropsRegistration ==
    \A c \in DOMAIN lmtp :
        lmtp[c].pc = "cancelled" =>
            /\ c \notin SeqRange(Consumers(lmtp[c].stream_id))
            /\ ~lmtp[c].late

\* the client is closed and the iterator of call c is still open
OpenAfterClose(c) ==
    /\ c \in DOMAIN lmtp
    /\ subprocess = "terminated"
    /\ lmtp[c].pc = "streaming"

\* a frame that reports an error is on the queue of call c
ErrorQueued(c) ==
    \E i \in DOMAIN lmtp[c].queue :
        /\ "none" \notin DOMAIN lmtp[c].queue[i]
        /\ lmtp[c].queue[i].error # "null"

\* the iterator of call c has ended with end-of-iteration, or its consumer
\* has given it up
EndedOrGivenUp(c) ==
    /\ c \in DOMAIN lmtp
    /\ lmtp[c].pc \in {"done", "cancelled"}

\* C24 as stated: after close() every iterator still open ends with
\* end-of-iteration (unless its consumer gives it up), whatever is on its
\* queue
C24_CloseEndsEveryIterator ==
    \A c \in 1..LmtpStreams : OpenAfterClose(c) ~> EndedOrGivenUp(c)

\* C24 amended: after close() every iterator still open whose queue holds no
\* error frame ends with end-of-iteration (unless its consumer gives it
\* up): it does not raise and does not wait forever
C24_CloseEndsIteratorWithoutError ==
    \A c \in 1..LmtpStreams :
        (OpenAfterClose(c) /\ ~ErrorQueued(c)) ~> EndedOrGivenUp(c)

\* the client was closed while a frame was on the queue of an open iterator:
\* the iterator has yielded the frame and has ended on the None of close()
C24_Witness ==
    \E c \in DOMAIN lmtp :
        /\ subprocess = "terminated"
        /\ lmtp[c].pc = "done"
        /\ Len(lmtp[c].taken) = 2
        /\ lmtp[c].taken[2] = NoneItem
        /\ lmtp[c].yielded = <<lmtp[c].taken[1]>>
        /\ lmtp[c].yielded[1].finish_reason = "null"

\* C25: while a reference handed out by client.ref() or ref.ref() has not
\* called close(), the client is open: its subprocess has not been
\* terminated
C25_OpenWhileReferenced ==
    (\E h \in DOMAIN handles : handles[h].state = "open") => subprocess = "alive"

(***************************************************************************)
(* Claims about response_buffer                                            *)
(***************************************************************************)

\* C27: get(i) returns the same record for index i every time it is called,
\* however many chunks were pulled from the iterator in between and whether
\* or not the iterator has ended
C27_GetIsStable ==
    \A a, b \in DOMAIN returned :
        (returned[a].i = returned[b].i /\ returned[a].raised = "no" /\ returned[b].raised = "no")
            => returned[a].item = returned[b].item

(***************************************************************************)
(* Claims about stalled streams                                            *)
(***************************************************************************)

\* C28: for a request without an explicit timeout, a next() that waits on a
\* response that has delivered chunks and then stays silent eventually
\* returns or raises, or a replacement request is submitted
C28_StallLeadsToRecovery ==
    \A n \in SliceIds :
        (/\ kw_timeout = "None"
         /\ callerState = "waiting"
         /\ Len(slices) = n
         /\ its[Len(its)].slice = n
         /\ slices[n].pos > 0) ~> (callerState # "waiting" \/ Len(slices) > n)

\* C26: once the scheduler is shut down the caller's iterator, if it has not
\* ended yet, ends with end-of-iteration: it does not raise, does not submit
\* a replacement request and does not wait forever
C26_ShutdownEndsIterators ==
    /\ (~available /\ callerState \in {"ready", "waiting"}) ~> (callerState = "stopped")
    /\ [][~available => Len(slices') = Len(slices)]_vars

(***************************************************************************)
(* Claims about the release of capacity                                    *)
(***************************************************************************)

\* C29: whenever a provider call that holds a reservation ends, by [DONE],
\* by an error, the stall timer or a cancellation, or because its consumer
\* stops, the reservation is released: the call has released as often as it
\* has acquired
C29_ReleasedOnEveryEnd ==
    \A c \in CallIds :
        (calls[c].pc \in {"done", "error", "abandoned", "closed"} /\ calls[c].acquires > 0)
            ~> (calls[c].releases = calls[c].acquires)

(***************************************************************************)
(* Claims about the hand-over to the driver queue                          *)
(***************************************************************************)

\* C32: no descriptor is handed from the batcher to the driver queue in a
\* state where reserved >= 0.8 * total
C32_NoHandOverWhileThrottled ==
    [][(batcherPc = "fill" /\ batcherPc' = "throttle") => ~Throttled]_vars

\* C33: Batcher.fill sleeps the collection period only if the first drain
\* has collected fewer than batch_size tasks
C33_FullBatchDoesNotSleep ==
    [][(fillPc = "get" /\ fillPc' = "sleep") => Len(tasks') < BatchSize]_vars

(***************************************************************************)
(* Claims about the order of the request queue                             *)
(***************************************************************************)

\* entry i of the history is a fresh request: no earlier entry has its id
FreshRequest(i) ==
    \A j \in 1..(i - 1) : requests[j].request_id # requests[i].request_id

\* the requests a step takes off the priority queue
TakenOffQueue ==
    {queue[j] : j \in DOMAIN queue} \ {queue'[j] : j \in DOMAIN queue'}

\* C34: the request ids of fresh requests increase in submission order, a
\* resubmission has the id of its original, and the batcher takes pending
\* requests by ascending id: what it takes has smaller ids than what it
\* leaves pending, and its first drain holds the requests in ascending id
C34_SmallestIdFirst ==
    /\ [](\A i, j \in DOMAIN requests :
             (i < j /\ FreshRequest(i) /\ FreshRequest(j))
                 => requests[i].request_id < requests[j].request_id)
    /\ [][\A x \in TakenOffQueue : \A j \in DOMAIN queue' :
             queue'[j] \in {queue[m] : m \in DOMAIN queue}
                 => x.request_id < queue'[j].request_id]_vars
    /\ [][(fillPc = "get" /\ fillPc' = "sleep") =>
             \A a, b \in DOMAIN tasks' :
                 a < b => tasks'[a].request_id < tasks'[b].request_id]_vars

\* the batcher has taken a resubmitted request ahead of a fresh request that
\* was issued after the original and was put on the queue before the
\* resubmission
C34_Witness ==
    /\ fillPc = "sleep"
    /\ Len(tasks) = 2
    /\ ~FreshRequest(tasks[1].future)
    /\ FreshRequest(tasks[2].future)
    /\ tasks[2].future < tasks[1].future
    /\ tasks[1].request_id < tasks[2].request_id

(***************************************************************************)
(* Claims about the attempts of a provider call                            *)
(***************************************************************************)

\* the step is a call of _create for descriptor k
AttemptStep(k) ==
    /\ work[k].pc = "create"
    /\ work'[k] # work[k]

\* the step is the maximum_retries-th call of _create for descriptor k, and
\* the call fails
LastAttemptFails(k) ==
    /\ AttemptStep(k)
    /\ work[k].attempts = DriverRetries - 1
    /\ work'[k].pc # "streaming"

\* C35: the worker makes at most maximum_retries attempts for a descriptor;
\* when the last permitted attempt fails the worker leaves the descriptor and
\* every member future, and no other, gets that error; a future that is
\* resolved or failed is never set again
C35_AttemptsBounded ==
    /\ [][\A k \in DOMAIN work : AttemptStep(k) =>
             work[k].attempts + 1 <= DriverRetries]_vars
    /\ [][\A k \in DOMAIN work : LastAttemptFails(k) =>
             /\ work'[k].pc = "failed"
             /\ \A f \in DOMAIN futures :
                   IF \E i \in DOMAIN work[k].futures : work[k].futures[i] = f
                   THEN /\ futures[f].state = "pending"
                        /\ futures'[f] = [state |-> "exception", error |-> work'[k].error]
                   ELSE futures'[f] = futures[f]]_vars
    /\ [][\A f \in DOMAIN futures :
             futures[f].state # "pending" => futures'[f] = futures[f]]_vars

\* the provider call of a descriptor has failed on its last permitted attempt,
\* a timeout, which is retried while attempts are left; its member future has
\* the error, and the worker has served the other descriptor
C35_Witness ==
    \E k, k2 \in DOMAIN work :
        /\ work[k].pc = "failed"
        /\ work[k].error = [type |-> "TimeoutError", msg |-> {}]
        /\ ~ErrorsRaise(work[k].kwargs)
        /\ work[k2].pc = "streaming"
        /\ \A f \in DOMAIN futures : futures[f].state \in {"exception", "result"}
        /\ \E f \in DOMAIN futures : futures[f].state = "exception"

(***************************************************************************)
(* Claims about the frames of a provider response                          *)
(***************************************************************************)

\* C36: a frame that fails JSON parsing is skipped: nothing is yielded for
\* it, no error is raised because of it, and the stream continues
C36_UndecodableFrameSkipped ==
    [][(/\ apiPc = "stream"
        /\ resp_content # <<>>
        /\ Head(resp_content).kind = "bad"
        /\ resp_content' = Tail(resp_content))
          => (api_yielded' = api_yielded /\ apiPc' = "stream")]_vars

(***************************************************************************)
(* Claims about the retries of an iterator                                 *)
(***************************************************************************)

\* the step in which the caller's iterator takes a RecoveryAttempt, in
\* __anext__ itself and not inside a recover() that is already under way
TakesRecoveryAttempt ==
    /\ Len(its) = 1
    /\ its[1].pc = "get_next"

\* C37: a recovery adds exactly one to the retries of the iterator, whether
\* the replacement stream aligns or a partial chunk is emitted: the counter
\* of the caller's iterator changes only when it takes a RecoveryAttempt,
\* and then by one
C37_OneRetryPerRecovery ==
    [][its'[1].retries # its[1].retries =>
          /\ TakesRecoveryAttempt
          /\ its'[1].retries = its[1].retries + 1]_vars

(***************************************************************************)
(* Claims about recovery without a tokenizer                               *)
(***************************************************************************)

\* the step in which the iterator of the caller takes a RecoveryAttempt off
\* its slice or makes one up for a timeout
RecoveryAttemptTaken ==
    /\ its # <<>>
    /\ its[Len(its)].pc = "get_next"
    /\ its'[1].retries = its[1].retries + 1

\* C38: with no tokenizer configured, an iterator that receives a
\* RecoveryAttempt raises the underlying error to the caller at next() and
\* no replacement request is submitted
C38_NoTokenizerNoRecovery ==
    /\ [][(tokenizer = "None" /\ RecoveryAttemptTaken) =>
             /\ callerState' = "raised_error"
             /\ out' = out
             /\ Len(slices') = Len(slices)]_vars
    /\ [](tokenizer = "None" => Len(slices) = 1)

\* without a tokenizer the caller has been given a chunk and the next() after
\* it has raised the error of the stream
C38_Witness ==
    /\ tokenizer = "None"
    /\ callerState = "raised_error"
    /\ out # <<>>
    /\ its[1].retries = 1
    /\ slices[1].failed

(***************************************************************************)
(* Claims about the slice of an iterator after a recovery                  *)
(***************************************************************************)

\* C39: once a recovery has completed, the slice of the iterator is the live
\* slice the replayed chunks were last read from, never the slice of a
\* response that has failed and whose RecoveryAttempt has been taken
C39_SliceIsLiveAfterRecovery ==
    (/\ callerState \in {"ready", "waiting"}
     /\ Len(its) = 1
     /\ its[1].pc \in {"idle", "get_next"})
        => ~(/\ slices[its[1].slice].state \in {"failed", "released"}
             /\ slices[its[1].slice].data_queue = <<>>)

(***************************************************************************)
(* Claims about the registration of LMTP streams                           *)
(***************************************************************************)

\* call c has sent its message to the subprocess
Sent(c) == lmtp[c].pc # "created"

\* C40: the queue of a generate or score call, and the future of a request,
\* is filed under the call's stream id from the moment its message is sent,
\* so every frame the reader loop dispatches for the stream, the first one
\* included, is put on the queue, and the MSG resolves the waiting request
C40_RegisteredBeforeDispatch ==
    /\ [](\A c \in DOMAIN lmtp : Sent(c) =>
             IF lmtp[c].kind = "REQUEST"
             THEN ~lmtp[c].ended => <<lmtp[c].stream_id, c>> \in request_futures
             ELSE c \in SeqRange(Consumers(lmtp[c].stream_id)))
    /\ [][\A c \in DOMAIN lmtp : lmtp'[c].served = lmtp[c].served + 1 =>
             IF lmtp[c].kind = "REQUEST"
             THEN lmtp[c].pc = "waiting" =>
                     (lmtp'[c].pc = "done" /\ lmtp'[c].result # <<>>)
             ELSE /\ Len(lmtp'[c].queue) = Len(lmtp[c].queue) + 1
                  /\ lmtp'[c].queue[Len(lmtp'[c].queue)].n = lmtp'[c].served
                  /\ lmtp'[c].queue[Len(lmtp'[c].queue)].stream_id = lmtp[c].stream_id]_vars

\* a request has its reply and a stream has the first frame of its stream on
\* its queue, not yet taken
C40_Witness ==
    \E c, r \in DOMAIN lmtp :
        /\ lmtp[r].kind = "REQUEST" /\ lmtp[r].pc = "done" /\ lmtp[r].result # <<>>
        /\ lmtp[c].kind # "REQUEST" /\ lmtp[c].taken = <<>>
        /\ lmtp[c].queue # <<>> /\ lmtp[c].queue[1].n = 1

====
